---- MODULE Spec2Model ----
(***************************************************************************)
(* Model of the jsonschema-equivalent rule engine: the JSON value model,   *)
(* the PrimitiveTypesBitMap, the intersection of two schemas, the rewrite  *)
(* rules, the recursive driver and the bounded fixed-point loop of         *)
(* jsonschema_equivalent_ref.                                              *)
(***************************************************************************)
EXTENDS Integers, Sequences, FiniteSets, TLC

VARIABLES
    input,      \* the value jsonschema_equivalent was called with
    schema,     \* the value jsonschema_equivalent_ref updates in place
    passes,     \* the rounds of update_schema done by the running call
    changed,    \* what the last update_schema returned
    pc,         \* "loop" in the for loop, "returned" after the early return,
                \* "logged" after the loop ran out of rounds
    calls,      \* how many times the entry point was called: the result of
                \* the first call is the input of the second
    rule,       \* the function applied on its own
    before,     \* its schema argument before the call
    other,      \* other_schema, for intersection_schema
    after,      \* the schema after the call
    flag,       \* the flag returned
    status      \* "ready", then "applied", or "Complete" / "Partial"

vars == <<input, schema, passes, changed, pc, calls, rule, before, other, after, flag, status>>

-----------------------------------------------------------------------------
(* serde_json::Value.  A number n + 1/2 is written with f = TRUE so that   *)
(* non-integer instances exist; every number written in a schema keyword   *)
(* of the model is integral.  A Map is a function from its keys: equality  *)
(* of serde_json maps does not depend on the order of the keys.            *)

JNull == [t |-> "null"]

JBool(b) == [t |-> "bool", b |-> b]

JNum(n) == [t |-> "num", n |-> n, f |-> FALSE]

JHalf(n) == [t |-> "num", n |-> n, f |-> TRUE]

JStr(s) == [t |-> "str", s |-> s]

\* a function in explicit form: a Map with its entries, a Vec with its items
Map(f) == f @@ <<>>

Vec(f) == f \o <<>>

JArr(a) == [t |-> "arr", a |-> Vec(a)]

JObj(o) == [t |-> "obj", o |-> Map(o)]

JTrue == JBool(TRUE)

JFalse == JBool(FALSE)

\* Option::None
NONE == [t |-> "none"]

EmptyMap == [k \in {} |-> JNull]

EmptyObject == JObj(EmptyMap)

IsObject(v) == v.t = "obj"

IsArray(v) == v.t = "arr"

IsBool(v) == v.t = "bool"

IsNumber(v) == v.t = "num"

IsString(v) == v.t = "str"

\* Map::contains_key
contains_key(o, k) == k \in DOMAIN o

\* Map::get
map_get(o, k) == IF k \in DOMAIN o THEN o[k] ELSE NONE

\* Map::insert
map_insert(o, k, v) == Map([x \in DOMAIN o \cup {k} |-> IF x = k THEN v ELSE o[x]])

\* Map::remove
map_remove(o, k) == Map([x \in DOMAIN o \ {k} |-> o[x]])

\* Value::get(key): None on anything that is not an object
value_get(v, k) == IF IsObject(v) THEN map_get(v.o, k) ELSE NONE

\* Value::as_f64 is Some
is_f64(v) == v.t = "num"

\* Value::as_f64 of a number, scaled by two so that halves stay integers
as_f64(v) == 2 * v.n + (IF v.f THEN 1 ELSE 0)

\* Value::as_u64 is Some
is_u64(v) == v.t = "num" /\ ~v.f /\ v.n >= 0

\* Value::as_u64 of a non-negative integer
as_u64(v) == v.n

\* Option<f64> `<`: None is smaller than every Some
option_f64_lt(a, b) ==
    IF is_f64(a) /\ is_f64(b) THEN as_f64(a) < as_f64(b) ELSE (~is_f64(a) /\ is_f64(b))

\* Vec::remove for a list of indexes
RemoveIndexes(s, idx) ==
    LET keep == {i \in 1..Len(s) : i \notin idx}
        F[i \in 0..Len(s)] ==
            IF i = 0 THEN <<>>
            ELSE IF i \in keep THEN Append(F[i - 1], s[i]) ELSE F[i - 1]
    IN F[Len(s)]

SeqContains(s, v) == \E i \in 1..Len(s) : s[i] = v

-----------------------------------------------------------------------------
(* helpers/is.rs *)

false_schema(v) == v = JFalse

true_schema(v) == v = JTrue \/ (IsObject(v) /\ DOMAIN v.o = {})

(* helpers/replace.rs *)

with_false_schema(v) == [schema |-> JFalse, changed |-> v # JFalse]

with_true_schema(v) == [schema |-> JTrue, changed |-> v # JTrue]

-----------------------------------------------------------------------------
(* primitive_type.rs and helpers/types.rs.  A PrimitiveTypesBitMap is the  *)
(* set of the PrimitiveType whose bit is set.                              *)

PrimitiveTypes == {"array", "boolean", "integer", "null", "number", "object", "string"}

\* PrimitiveType::from_bit_representation walks the types in this order
PrimitiveTypeOrder == <<"array", "boolean", "integer", "null", "number", "object", "string">>

\* `number` taken for itself alone, the integers forgotten
to_bit_representation_alone(pt) == {pt}

\* PrimitiveType::to_bit_representation: Number carries the Integer bit
to_bit_representation(pt) == IF pt = "number" THEN {"integer", "number"} ELSE {pt}

PRIMITIVE_TYPES_BIT_MAP_ALL_TYPES == UNION {to_bit_representation(pt) : pt \in PrimitiveTypes}

\* PrimitiveType::from_serde_value
from_serde_value(v) ==
    CASE v.t = "arr" -> "array"
      [] v.t = "bool" -> "boolean"
      [] v.t = "null" -> "null"
      [] v.t = "num" -> "number"
      [] v.t = "obj" -> "object"
      [] OTHER -> "string"

\* PrimitiveType::try_from(&Value) succeeds
IsPrimitiveTypeValue(v) == IsString(v) /\ v.s \in PrimitiveTypes

\* PrimitiveTypesBitMap::from_schema_value
from_schema_value(type_) ==
    CASE type_ = NONE -> PRIMITIVE_TYPES_BIT_MAP_ALL_TYPES
      [] IsString(type_) ->
            IF type_.s \in PrimitiveTypes THEN to_bit_representation(type_.s) ELSE {}
      [] IsArray(type_) ->
            UNION {to_bit_representation(type_.a[i].s) :
                       i \in {j \in 1..Len(type_.a) : IsPrimitiveTypeValue(type_.a[j])}}
      [] OTHER -> {}

\* PrimitiveTypesBitMap::from_schema
from_schema(v) ==
    CASE v = JTrue -> PRIMITIVE_TYPES_BIT_MAP_ALL_TYPES
      [] IsObject(v) -> from_schema_value(map_get(v.o, "type"))
      [] OTHER -> {}

\* PrimitiveTypesBitMap::contains
bitmap_contains(self, pt) ==
    /\ self \cap to_bit_representation(pt) # {}
    /\ (pt # "number" \/ "number" \in self)

\* PrimitiveTypesBitMap::remove
bitmap_remove(self, pt) == self \ to_bit_representation(pt)

\* PrimitiveTypesBitMap::remove_all
remove_all(self, pts) == self \ pts

\* PrimitiveTypesBitMap::is_empty
is_empty(self) == self = {}

\* PrimitiveTypesBitMap::has_other_primitive_types_other_than
has_other_primitive_types_other_than(self, pt) == self \ to_bit_representation(pt) # {}

\* the JSON strings of a set of types, in the order of from_bit_representation
TypeNames(self) ==
    LET F[i \in 0..Len(PrimitiveTypeOrder)] ==
            IF i = 0 THEN <<>>
            ELSE IF PrimitiveTypeOrder[i] \in self
                 THEN Append(F[i - 1], JStr(PrimitiveTypeOrder[i]))
                 ELSE F[i - 1]
    IN F[Len(PrimitiveTypeOrder)]

\* PrimitiveTypesBitMap::to_schema_value
to_schema_value(self) ==
    IF self = {} \/ self = PRIMITIVE_TYPES_BIT_MAP_ALL_TYPES THEN NONE
    ELSE LET s == IF bitmap_contains(self, "integer") /\ bitmap_contains(self, "number")
                  THEN self \ {"integer"} ELSE self
             names == TypeNames(s)
         IN IF Len(names) = 1 THEN names[1] ELSE JArr(names)

\* replace::type_with on a Map; returns the map and the modification flag
type_with(schema_object, primitive_types) ==
    LET json_primitive_types == to_schema_value(primitive_types)
    IN IF ~contains_key(schema_object, "type")
       THEN IF json_primitive_types # NONE
            THEN [map |-> map_insert(schema_object, "type", json_primitive_types), changed |-> TRUE]
            ELSE [map |-> schema_object, changed |-> FALSE]
       ELSE IF json_primitive_types # NONE
            THEN [map |-> map_insert(schema_object, "type", json_primitive_types),
                  changed |-> schema_object["type"] # json_primitive_types]
            ELSE [map |-> map_remove(schema_object, "type"), changed |-> TRUE]

\* helpers::get_primitive_types: the BTreeSet of the listed types, empty when
\* `type` is missing; Number does not bring Integer here
get_primitive_types(maybe_type) ==
    CASE maybe_type = NONE -> {}
      [] IsString(maybe_type) ->
            IF maybe_type.s \in PrimitiveTypes THEN {maybe_type.s} ELSE {}
      [] IsArray(maybe_type) ->
            {maybe_type.a[i].s : i \in {j \in 1..Len(maybe_type.a) : IsPrimitiveTypeValue(maybe_type.a[j])}}
      [] OTHER -> {}

\* helpers::to_json_schema_primitive_types
to_json_schema_primitive_types(primitive_types) ==
    LET s == IF Cardinality(primitive_types) > 1 /\ {"integer", "number"} \subseteq primitive_types
             THEN primitive_types \ {"integer"} ELSE primitive_types
        names == TypeNames(s)
    IN IF s = {} THEN NONE
       ELSE IF Len(names) = 1 THEN names[1] ELSE JArr(names)

-----------------------------------------------------------------------------
(* constants.rs *)

KEYWORDS == {
    "additionalItems", "additionalProperties", "allOf", "anyOf", "const", "contains",
    "contentEncoding", "contentMediaType", "dependencies", "else", "enum",
    "exclusiveMaximum", "exclusiveMinimum", "format", "if", "items", "maxItems",
    "maxLength", "maxProperties", "maximum", "minItems", "minLength", "minProperties",
    "minimum", "multipleOf", "not", "oneOf", "pattern", "patternProperties",
    "properties", "propertyNames", "required", "then", "type", "uniqueItems"}

KEYWORDS_WITH_SUBSCHEMAS == KEYWORDS

KEYWORDS_WITH_DIRECT_SUBSCHEMAS == {
    "additionalItems", "additionalProperties", "contains", "else", "if", "not",
    "propertyNames", "then"}

\* helpers::keywords_to_remove
keywords_to_remove(keywords_to_preserve) == KEYWORDS \ keywords_to_preserve

\* every key that is not to be preserved removed, keyword or not
preserve_only(map, keys_to_preserve) == Map([k \in DOMAIN map \cap keys_to_preserve |-> map[k]])

\* helpers::preserve_keys
preserve_keys(map, keys_to_preserve) ==
    Map([k \in DOMAIN map \ keywords_to_remove(keys_to_preserve) |-> map[k]])

-----------------------------------------------------------------------------
(* keywords/type_.rs *)

KEYWORDS_TYPE_ARRAY == {
    "allOf", "anyOf", "additionalItems", "contains", "const", "enum", "items",
    "maxItems", "minItems", "not", "oneOf", "type", "uniqueItems"}

KEYWORDS_TYPE_BOOLEAN == {"allOf", "anyOf", "const", "enum", "type", "not", "oneOf"}

KEYWORDS_TYPE_NULL == KEYWORDS_TYPE_BOOLEAN

KEYWORDS_TYPE_INTEGER == {
    "allOf", "anyOf", "const", "enum", "exclusiveMaximum", "exclusiveMinimum", "format",
    "maximum", "minimum", "multipleOf", "not", "oneOf", "type"}

KEYWORDS_TYPE_NUMBER == KEYWORDS_TYPE_INTEGER

KEYWORDS_TYPE_OBJECT == {
    "additionalProperties", "allOf", "anyOf", "dependencies", "const", "enum",
    "maxProperties", "minProperties", "not", "oneOf", "patternProperties", "properties",
    "propertyNames", "required", "type"}

KEYWORDS_TYPE_STRING == {
    "allOf", "anyOf", "contentMediaType", "contentEncoding", "const", "enum", "format",
    "maxLength", "minLength", "not", "oneOf", "pattern", "type"}

\* the match of remove_extraneous_keys_keyword_type on one primitive type
KeywordsOfType(pt) ==
    CASE pt = "array" -> KEYWORDS_TYPE_ARRAY
      [] pt = "boolean" -> KEYWORDS_TYPE_BOOLEAN
      [] pt = "integer" -> KEYWORDS_TYPE_INTEGER
      [] pt = "null" -> KEYWORDS_TYPE_NULL
      [] pt = "number" -> KEYWORDS_TYPE_NUMBER
      [] pt = "object" -> KEYWORDS_TYPE_OBJECT
      [] OTHER -> KEYWORDS_TYPE_STRING

\* The rules of keywords/type_.rs and keywords/additional_properties.rs return
\* the schema, not a flag; the flag the driver accumulates for them is the
\* comparison of the schema with its value before the call.
Flagged(v, w) == [schema |-> w, changed |-> w # v]

Unchanged(v) == [schema |-> v, changed |-> FALSE]

optimise_keyword_type_if_array(v) ==
    IF ~IsObject(v) THEN Unchanged(v)
    ELSE LET schema_object == v.o
             type_ == map_get(schema_object, "type")
         IN IF ~IsArray(type_) THEN Unchanged(v)
            ELSE LET items == type_.a
                     types == SelectSeq(items, IsPrimitiveTypeValue)
                     has(pt) == SeqContains(types, JStr(pt))
                     index == CHOOSE i \in 1..Len(items) :
                                  /\ items[i] = JStr("integer")
                                  /\ \A j \in 1..(i - 1) : items[j] # JStr("integer")
                 IN CASE Len(types) = 0 ->
                            Flagged(v, JObj(map_remove(schema_object, "type")))
                      [] Len(types) = 1 ->
                            Flagged(v, JObj(map_insert(schema_object, "type", types[1])))
                      [] Len(types) > 1 /\ has("integer") /\ has("number") ->
                            IF Len(types) = 2
                            THEN Flagged(v, JObj(map_insert(schema_object, "type", JStr("number"))))
                            ELSE Flagged(v, JObj(map_insert(schema_object, "type",
                                                 JArr(RemoveIndexes(items, {index})))))
                      [] OTHER -> Unchanged(v)

\* the keys to reserve are those of one of the types, not of all of them
remove_extraneous_keys_of_one_type(v) ==
    IF ~IsObject(v) THEN Unchanged(v)
    ELSE LET primitive_types == get_primitive_types(map_get(v.o, "type"))
         IN IF primitive_types = {} THEN Unchanged(v)
            ELSE LET first == CHOOSE pt \in primitive_types :
                                  \A i, j \in 1..Len(PrimitiveTypeOrder) :
                                      (PrimitiveTypeOrder[i] = pt /\ PrimitiveTypeOrder[j] \in primitive_types)
                                          => i <= j
                     preserved == preserve_keys(v.o, KeywordsOfType(first))
                     names == TypeNames(primitive_types)
                     type_ == IF Len(names) = 1 THEN names[1] ELSE JArr(names)
                 IN Flagged(v, JObj(map_insert(preserved, "type", type_)))

remove_extraneous_keys_keyword_type(v) ==
    IF ~IsObject(v) THEN Unchanged(v)
    ELSE LET primitive_types == get_primitive_types(map_get(v.o, "type"))
         IN IF primitive_types = {} THEN Unchanged(v)
            ELSE LET keys_to_reserve == UNION {KeywordsOfType(pt) : pt \in primitive_types}
                     preserved == preserve_keys(v.o, keys_to_reserve)
                     types == IF {"integer", "number"} \subseteq primitive_types
                              THEN primitive_types \ {"integer"} ELSE primitive_types
                     names == TypeNames(types)
                     type_ == IF Len(names) = 1 THEN names[1] ELSE JArr(names)
                 IN Flagged(v, JObj(map_insert(preserved, "type", type_)))

(* keywords/additional_properties.rs *)

remove_empty_additional_properties(v) ==
    LET ap == value_get(v, "additionalProperties")
    IN IF ap = JTrue \/ (IsObject(ap) /\ DOMAIN ap.o = {})
       THEN Flagged(v, JObj(map_remove(v.o, "additionalProperties")))
       ELSE Unchanged(v)

(* keywords/required.rs *)

remove_empty_required(v) ==
    LET r == value_get(v, "required")
    IN IF IsArray(r) /\ Len(r.a) = 0
       THEN [schema |-> JObj(map_remove(v.o, "required")), changed |-> TRUE]
       ELSE Unchanged(v)

(* keywords/macro_/ignore_keywords.rs *)

\* one `$parent => $child` arm of define_parent_child_relation
parent_child_relation(r, parent, child) ==
    IF contains_key(r.schema.o, child) /\ ~contains_key(r.schema.o, parent)
    THEN [schema |-> JObj(map_remove(r.schema.o, child)), changed |-> TRUE]
    ELSE r

remove_keywords_in_must_ignore_groups(v) ==
    IF ~IsObject(v) THEN Unchanged(v)
    ELSE parent_child_relation(
             parent_child_relation(
                 parent_child_relation(Unchanged(v), "if", "else"),
                 "if", "then"),
             "items", "additionalItems")

value_is_zero(v) == is_f64(v) /\ as_f64(v) = 0

value_is_empty_array(v) == IsArray(v) /\ Len(v.a) = 0

value_is_empty_object(v) == IsObject(v) /\ DOMAIN v.o = {}

\* KEYWORD_TO_OMIT_CHECK: the keyword is listed and its check accepts the value
omit_check(property, v) ==
    CASE property \in {"additionalItems", "additionalProperties", "else", "items", "then"} ->
            true_schema(v)
      [] property \in {"dependencies", "patternProperties", "properties", "propertyNames"} ->
            value_is_empty_object(v)
      [] property \in {"minItems", "minLength", "minProperties"} -> value_is_zero(v)
      [] property = "required" -> value_is_empty_array(v)
      [] property = "uniqueItems" -> false_schema(v)
      [] OTHER -> FALSE

\* `return true` where a value that is no object is given
omit_keywords_reports_no_object(v) ==
    IF ~IsObject(v) THEN [schema |-> v, changed |-> TRUE]
    ELSE [schema |-> JObj([k \in {x \in DOMAIN v.o : ~omit_check(x, v.o[x])} |-> v.o[k]]),
          changed |-> \E k \in DOMAIN v.o : omit_check(k, v.o[k])]

omit_keywords_that_do_not_alter_schema_selectivity(v) ==
    IF ~IsObject(v) THEN Unchanged(v)
    ELSE LET keywords_to_remove_ == {k \in DOMAIN v.o : omit_check(k, v.o[k])}
         IN [schema |-> JObj([k \in DOMAIN v.o \ keywords_to_remove_ |-> v.o[k]]),
             changed |-> keywords_to_remove_ # {}]

(* keywords/additional_items.rs *)

\* `maxItems` set to the number of items whatever it was
simplify_additional_items_overwriting(v) ==
    IF IsObject(v) /\ false_schema(map_get(v.o, "additionalItems")) /\ IsArray(map_get(v.o, "items"))
    THEN [schema |-> JObj(map_insert(map_remove(v.o, "additionalItems"), "maxItems",
                                     JNum(Len(v.o["items"].a)))),
          changed |-> TRUE]
    ELSE Unchanged(v)

simplify_additional_items(v) ==
    IF ~IsObject(v) THEN Unchanged(v)
    ELSE LET schema_object == v.o
             additional_items == map_get(schema_object, "additionalItems")
             items == map_get(schema_object, "items")
             max_items == map_get(schema_object, "maxItems")
             removed == map_remove(schema_object, "additionalItems")
         IN CASE additional_items = NONE -> Unchanged(v)
              [] additional_items # NONE /\ true_schema(additional_items) ->
                    [schema |-> JObj(removed), changed |-> TRUE]
              [] additional_items # NONE /\ ~true_schema(additional_items) /\ IsObject(items) ->
                    [schema |-> JObj(removed), changed |-> TRUE]
              [] additional_items # NONE /\ ~true_schema(additional_items) /\ IsArray(items) ->
                    LET items_len == Len(items.a)
                        \* max_items_len is u64::MAX unless maxItems is an unsigned integer
                        max_items_len_gt == ~is_u64(max_items) \/ as_u64(max_items) > items_len
                    IN IF false_schema(additional_items)
                       THEN [schema |-> JObj(IF ~contains_key(removed, "maxItems") \/ max_items_len_gt
                                             THEN map_insert(removed, "maxItems", JNum(items_len))
                                             ELSE removed),
                             changed |-> TRUE]
                       ELSE IF ~max_items_len_gt
                            THEN [schema |-> JObj(removed), changed |-> TRUE]
                            ELSE Unchanged(v)
              [] OTHER -> Unchanged(v)

(* keywords/const_.rs *)

\* replace::type_with as called by simple_const_cleanup, on a BTreeSet
type_with_set(schema_object, primitive_types) ==
    LET json_primitive_types == to_json_schema_primitive_types(primitive_types)
    IN IF ~contains_key(schema_object, "type")
       THEN IF json_primitive_types # NONE
            THEN [map |-> map_insert(schema_object, "type", json_primitive_types), changed |-> TRUE]
            ELSE [map |-> schema_object, changed |-> FALSE]
       ELSE IF json_primitive_types # NONE
            THEN [map |-> map_insert(schema_object, "type", json_primitive_types),
                  changed |-> schema_object["type"] # json_primitive_types]
            ELSE [map |-> map_remove(schema_object, "type"), changed |-> TRUE]

\* simple_const_cleanup without the case of a numeric constant under `integer`
simple_const_cleanup_without_integer(v) ==
    IF ~IsObject(v) THEN Unchanged(v)
    ELSE LET schema_object == v.o
             const_value == map_get(schema_object, "const")
             type_ == map_get(schema_object, "type")
         IN IF const_value = NONE \/ type_ = NONE THEN Unchanged(v)
            ELSE LET schema_primitive_types == get_primitive_types(type_)
                     const_primitive_type == from_serde_value(const_value)
                     narrow(pt) == LET r == type_with_set(schema_object, {pt})
                                   IN [schema |-> JObj(r.map), changed |-> r.changed]
                 IN IF const_primitive_type \in schema_primitive_types
                    THEN narrow(const_primitive_type)
                    ELSE [schema |-> JFalse, changed |-> TRUE]

simple_const_cleanup(v) ==
    IF ~IsObject(v) THEN Unchanged(v)
    ELSE LET schema_object == v.o
             const_value == map_get(schema_object, "const")
             type_ == map_get(schema_object, "type")
         IN IF const_value = NONE \/ type_ = NONE THEN Unchanged(v)
            ELSE LET schema_primitive_types == get_primitive_types(type_)
                     const_primitive_type == from_serde_value(const_value)
                     narrow(pt) == LET r == type_with_set(schema_object, {pt})
                                   IN [schema |-> JObj(r.map), changed |-> r.changed]
                 IN CASE const_primitive_type \in schema_primitive_types ->
                            narrow(const_primitive_type)
                      [] const_primitive_type \notin schema_primitive_types
                         /\ const_primitive_type = "number"
                         /\ "integer" \in schema_primitive_types ->
                            narrow("integer")
                      [] OTHER -> [schema |-> JFalse, changed |-> TRUE]

(* keywords/enum_.rs *)

\* simple_enum_cleanup without the case of a number under `integer`
simple_enum_cleanup_without_integer(v) ==
    IF ~IsObject(v) THEN Unchanged(v)
    ELSE LET schema_object == v.o
             schema_primitive_types == from_schema_value(map_get(schema_object, "type"))
             enum_ == map_get(schema_object, "enum")
         IN IF is_empty(schema_primitive_types) \/ ~IsArray(enum_) THEN Unchanged(v)
            ELSE LET enum_values == enum_.a
                     keep(enum_value) ==
                         LET enum_value_primitive_type == from_serde_value(enum_value)
                         IN bitmap_contains(schema_primitive_types, enum_value_primitive_type)
                     enum_indexes_to_remove == {i \in 1..Len(enum_values) : ~keep(enum_values[i])}
                 IN CASE Len(enum_values) = 0 -> Unchanged(v)
                      [] Len(enum_values) > 0 /\ enum_indexes_to_remove = {} -> Unchanged(v)
                      [] Len(enum_values) > 0 /\ enum_indexes_to_remove # {}
                         /\ Cardinality(enum_indexes_to_remove) = Len(enum_values) ->
                            with_false_schema(v)
                      [] OTHER ->
                            [schema |-> JObj(map_insert(schema_object, "enum",
                                             JArr(RemoveIndexes(enum_values, enum_indexes_to_remove)))),
                             changed |-> TRUE]

simple_enum_cleanup(v) ==
    IF ~IsObject(v) THEN Unchanged(v)
    ELSE LET schema_object == v.o
             schema_primitive_types == from_schema_value(map_get(schema_object, "type"))
             enum_ == map_get(schema_object, "enum")
         IN IF is_empty(schema_primitive_types) \/ ~IsArray(enum_) THEN Unchanged(v)
            ELSE LET enum_values == enum_.a
                     keep(enum_value) ==
                         LET enum_value_primitive_type == from_serde_value(enum_value)
                         IN \/ bitmap_contains(schema_primitive_types, enum_value_primitive_type)
                            \/ /\ enum_value_primitive_type = "number"
                               /\ bitmap_contains(schema_primitive_types, "integer")
                     enum_indexes_to_remove == {i \in 1..Len(enum_values) : ~keep(enum_values[i])}
                 IN CASE Len(enum_values) = 0 -> Unchanged(v)
                      [] Len(enum_values) > 0 /\ enum_indexes_to_remove = {} -> Unchanged(v)
                      [] Len(enum_values) > 0 /\ enum_indexes_to_remove # {}
                         /\ Cardinality(enum_indexes_to_remove) = Len(enum_values) ->
                            with_false_schema(v)
                      [] OTHER ->
                            [schema |-> JObj(map_insert(schema_object, "enum",
                                             JArr(RemoveIndexes(enum_values, enum_indexes_to_remove)))),
                             changed |-> TRUE]

(* keywords/if_.rs *)

\* the branch pushed to `allOf` and nothing deleted
embed_and_keep(schema_object, dropped, taken) ==
    LET taken_schema == map_get(schema_object, taken)
        all_of == map_get(schema_object, "allOf")
    IN IF taken_schema = NONE THEN map_remove(map_remove(schema_object, "if"), dropped)
       ELSE IF IsArray(all_of)
            THEN map_insert(schema_object, "allOf", JArr(Append(all_of.a, taken_schema)))
            ELSE map_insert(schema_object, "allOf", JArr(<<taken_schema>>))

\* the branch of simplify_if shared by the `false` and the `true` predicate:
\* `dropped` is deleted and `taken`, when present, is pushed to `allOf`
embed_in_all_of(schema_object, dropped, taken) ==
    LET o1 == map_remove(map_remove(schema_object, "if"), dropped)
        taken_schema == map_get(o1, taken)
        o2 == map_remove(o1, taken)
        all_of == map_get(o2, "allOf")
        o3 == map_remove(o2, "allOf")
    IN IF taken_schema = NONE THEN o1
       ELSE IF all_of = NONE THEN map_insert(o3, "allOf", JArr(<<taken_schema>>))
       ELSE IF IsArray(all_of) THEN map_insert(o3, "allOf", JArr(Append(all_of.a, taken_schema)))
       ELSE o3

\* the branches taken for one another: `then` kept when `if` is `false`
simplify_if_swapped(v) ==
    IF ~IsObject(v) \/ ~contains_key(v.o, "if") THEN Unchanged(v)
    ELSE IF false_schema(v.o["if"])
         THEN [schema |-> JObj(embed_in_all_of(v.o, "else", "then")), changed |-> TRUE]
         ELSE IF true_schema(v.o["if"])
              THEN [schema |-> JObj(embed_in_all_of(v.o, "then", "else")), changed |-> TRUE]
              ELSE IF ~contains_key(v.o, "else") /\ ~contains_key(v.o, "then")
                   THEN [schema |-> JObj(map_remove(v.o, "if")), changed |-> TRUE]
                   ELSE Unchanged(v)

simplify_if(v) ==
    IF ~IsObject(v) THEN Unchanged(v)
    ELSE LET schema_object == v.o
             if_schema == map_get(schema_object, "if")
         IN CASE if_schema = NONE -> Unchanged(v)
              [] if_schema # NONE /\ false_schema(if_schema) ->
                    [schema |-> JObj(embed_in_all_of(schema_object, "then", "else")), changed |-> TRUE]
              [] if_schema # NONE /\ true_schema(if_schema) ->
                    [schema |-> JObj(embed_in_all_of(schema_object, "else", "then")), changed |-> TRUE]
              [] if_schema # NONE /\ ~false_schema(if_schema) /\ ~true_schema(if_schema)
                 /\ ~contains_key(schema_object, "else") /\ ~contains_key(schema_object, "then") ->
                    [schema |-> JObj(map_remove(schema_object, "if")), changed |-> TRUE]
              [] OTHER -> Unchanged(v)

(* keywords/items.rs *)

simplify_items(v) ==
    LET max_items == value_get(v, "maxItems")
        items == value_get(v, "items")
    IN IF IsArray(items) /\ is_u64(max_items) /\ Len(items.a) > as_u64(max_items)
       THEN [schema |-> JObj(map_insert(v.o, "items", JArr(SubSeq(items.a, 1, as_u64(max_items))))),
             changed |-> TRUE]
       ELSE Unchanged(v)

(* keywords/macro_/maximum_minimum_related_keywords.rs.  The update_*     *)
(* methods share the schema and the bitmap of its primitive types: their   *)
(* result carries both, and the flag they return.                          *)

MaxMinState(v, types, changed_) == [schema |-> v, types |-> types, changed |-> changed_]

cleanup_incongruent_keywords(v, schema_primitive_types, primitive_types_to_remove, keywords_) ==
    LET types == remove_all(schema_primitive_types, primitive_types_to_remove)
    IN IF is_empty(types)
       THEN MaxMinState(JFalse, types, v # JFalse)
       ELSE IF IsObject(v)
            THEN MaxMinState(JObj([k \in DOMAIN v.o \ keywords_ |-> v.o[k]]), types,
                             DOMAIN v.o \cap keywords_ # {})
            ELSE MaxMinState(v, types, FALSE)

\* the body shared by the five update_* methods: `gate` is the type tested on
\* the bitmap, `zero_rule` tells whether the method has the `min_ <= 0.` arm
update_max_min_pair(v, types, gate, max_keyword, min_keyword, to_remove, zero_rule) ==
    LET max_ == value_get(v, max_keyword)
        min_ == value_get(v, min_keyword)
    IN CASE ~bitmap_contains(types, gate) -> MaxMinState(v, types, FALSE)
         [] bitmap_contains(types, gate) /\ is_f64(max_) /\ is_f64(min_)
            /\ as_f64(max_) < as_f64(min_) ->
               cleanup_incongruent_keywords(v, types, to_remove, {max_keyword, min_keyword})
         [] bitmap_contains(types, gate)
            /\ ~(is_f64(max_) /\ is_f64(min_) /\ as_f64(max_) < as_f64(min_))
            /\ zero_rule /\ is_f64(min_) /\ as_f64(min_) <= 0 ->
               IF IsObject(v)
               THEN MaxMinState(JObj(map_remove(v.o, min_keyword)), types, TRUE)
               ELSE MaxMinState(v, types, FALSE)
         [] OTHER -> MaxMinState(v, types, FALSE)

update_max_min_items(v, types) ==
    update_max_min_pair(v, types, "array", "maxItems", "minItems", {"array"}, TRUE)

update_max_min_length(v, types) ==
    update_max_min_pair(v, types, "string", "maxLength", "minLength", {"string"}, TRUE)

update_max_min_properties(v, types) ==
    update_max_min_pair(v, types, "object", "maxProperties", "minProperties", {"object"}, TRUE)

update_exclusive_maximum_minimum(v, types) ==
    update_max_min_pair(v, types, "integer", "exclusiveMaximum", "exclusiveMinimum",
                        {"integer", "number"}, FALSE)

update_maximum_minimum(v, types) ==
    update_max_min_pair(v, types, "integer", "maximum", "minimum", {"integer", "number"}, FALSE)

update_max_min_related_keywords(v) ==
    LET s0 == MaxMinState(v, from_schema(v), FALSE)
        s1 == update_max_min_items(s0.schema, s0.types)
        s2 == update_max_min_length(s1.schema, s1.types)
        s3 == update_max_min_properties(s2.schema, s2.types)
        s4 == update_exclusive_maximum_minimum(s3.schema, s3.types)
        s5 == update_maximum_minimum(s4.schema, s4.types)
        updated_schema == s1.changed \/ s2.changed \/ s3.changed \/ s4.changed \/ s5.changed
    IN IF updated_schema /\ IsObject(s5.schema)
       THEN [schema |-> JObj(type_with(s5.schema.o, s5.types).map), changed |-> updated_schema]
       ELSE [schema |-> s5.schema, changed |-> updated_schema]

(* keywords/min_max.rs: the dispatcher that keywords/mod.rs lists *)

\* the body shared by the five update_* methods of min_max.rs: the two
\* keywords are compared as Option<f64>, whatever `type` allows
min_max_pair(v, max_keyword, min_keyword) ==
    IF /\ value_get(v, max_keyword) # NONE
       /\ value_get(v, min_keyword) # NONE
       /\ option_f64_lt(value_get(v, max_keyword), value_get(v, min_keyword))
    THEN [schema |-> JFalse, changed |-> TRUE]
    ELSE Unchanged(v)

update_min_max_related_keywords(v) ==
    IF value_get(v, "type") = NONE THEN Unchanged(v)
    ELSE LET s1 == min_max_pair(v, "maxItems", "minItems")
             s2 == min_max_pair(s1.schema, "maxLength", "minLength")
             s3 == min_max_pair(s2.schema, "maxProperties", "minProperties")
             s4 == min_max_pair(s3.schema, "exclusiveMaximum", "exclusiveMinimum")
             s5 == min_max_pair(s4.schema, "maximum", "minimum")
         IN [schema |-> s5.schema,
             changed |-> s1.changed \/ s2.changed \/ s3.changed \/ s4.changed \/ s5.changed]

(* keywords/property_names.rs *)

\* PrimitiveTypesBitMap::from_primitive_type(PrimitiveType::String)
StringOnly == to_bit_representation("string")

\* optimise_property_names that would not read `minProperties`
optimise_property_names_without_min_properties(v) ==
    IF ~IsObject(v) THEN Unchanged(v)
    ELSE LET schema_object == v.o
             schema_primitive_types == from_schema_value(map_get(schema_object, "type"))
             min_properties == map_get(schema_object, "minProperties")
             schema_min_properties == 0
             property_names_schema == map_get(schema_object, "propertyNames")
         IN CASE property_names_schema = NONE -> Unchanged(v)
              [] property_names_schema # NONE /\ true_schema(property_names_schema) ->
                    [schema |-> JObj(map_remove(schema_object, "propertyNames")), changed |-> TRUE]
              [] OTHER ->
                    LET property_names_types == from_schema(property_names_schema)
                        narrow == bitmap_contains(property_names_types, "string")
                                  /\ has_other_primitive_types_other_than(property_names_types, "string")
                                  /\ IsObject(property_names_schema)
                        r1 == IF narrow THEN type_with(property_names_schema.o, StringOnly)
                              ELSE [map |-> EmptyMap, changed |-> FALSE]
                        \* propertyNames after the first type_with
                        names1 == IF narrow THEN JObj(r1.map) ELSE property_names_schema
                        object1 == map_insert(schema_object, "propertyNames", names1)
                        without_object == bitmap_remove(schema_primitive_types, "object")
                        r2 == type_with(object1, without_object)
                        r3 == type_with(names1.o, StringOnly)
                        second ==
                            CASE ~bitmap_contains(schema_primitive_types, "object") ->
                                    [schema |-> JObj(map_remove(object1, "propertyNames")),
                                     changed |-> TRUE]
                              [] bitmap_contains(schema_primitive_types, "object")
                                 /\ ~bitmap_contains(property_names_types, "string")
                                 /\ schema_min_properties > 0 ->
                                    IF r2.changed
                                    THEN [schema |-> IF ~contains_key(r2.map, "type")
                                                     THEN JFalse ELSE JObj(r2.map),
                                          changed |-> TRUE]
                                    ELSE [schema |-> JObj(r2.map), changed |-> FALSE]
                              [] bitmap_contains(schema_primitive_types, "object")
                                 /\ ~bitmap_contains(property_names_types, "string")
                                 /\ ~(schema_min_properties > 0) ->
                                    [schema |-> JObj(map_remove(
                                                    map_insert(object1, "maxProperties", JNum(0)),
                                                    "propertyNames")),
                                     changed |-> TRUE]
                              [] bitmap_contains(schema_primitive_types, "object")
                                 /\ bitmap_contains(property_names_types, "string")
                                 /\ IsObject(names1) ->
                                    IF DOMAIN names1.o = {"type"}
                                    THEN [schema |-> JObj(map_remove(object1, "propertyNames")),
                                          changed |-> TRUE]
                                    ELSE [schema |-> JObj(map_insert(object1, "propertyNames",
                                                                     JObj(r3.map))),
                                          changed |-> r3.changed]
                              [] OTHER -> [schema |-> JObj(object1), changed |-> FALSE]
                    IN [schema |-> second.schema, changed |-> r1.changed \/ second.changed]

optimise_property_names(v) ==
    IF ~IsObject(v) THEN Unchanged(v)
    ELSE LET schema_object == v.o
             schema_primitive_types == from_schema_value(map_get(schema_object, "type"))
             min_properties == map_get(schema_object, "minProperties")
             schema_min_properties == IF is_f64(min_properties) THEN as_f64(min_properties) ELSE 0
             property_names_schema == map_get(schema_object, "propertyNames")
         IN CASE property_names_schema = NONE -> Unchanged(v)
              [] property_names_schema # NONE /\ true_schema(property_names_schema) ->
                    [schema |-> JObj(map_remove(schema_object, "propertyNames")), changed |-> TRUE]
              [] OTHER ->
                    LET property_names_types == from_schema(property_names_schema)
                        narrow == bitmap_contains(property_names_types, "string")
                                  /\ has_other_primitive_types_other_than(property_names_types, "string")
                                  /\ IsObject(property_names_schema)
                        r1 == IF narrow THEN type_with(property_names_schema.o, StringOnly)
                              ELSE [map |-> EmptyMap, changed |-> FALSE]
                        \* propertyNames after the first type_with
                        names1 == IF narrow THEN JObj(r1.map) ELSE property_names_schema
                        object1 == map_insert(schema_object, "propertyNames", names1)
                        without_object == bitmap_remove(schema_primitive_types, "object")
                        r2 == type_with(object1, without_object)
                        r3 == type_with(names1.o, StringOnly)
                        second ==
                            CASE ~bitmap_contains(schema_primitive_types, "object") ->
                                    [schema |-> JObj(map_remove(object1, "propertyNames")),
                                     changed |-> TRUE]
                              [] bitmap_contains(schema_primitive_types, "object")
                                 /\ ~bitmap_contains(property_names_types, "string")
                                 /\ schema_min_properties > 0 ->
                                    IF r2.changed
                                    THEN [schema |-> IF ~contains_key(r2.map, "type")
                                                     THEN JFalse ELSE JObj(r2.map),
                                          changed |-> TRUE]
                                    ELSE [schema |-> JObj(r2.map), changed |-> FALSE]
                              [] bitmap_contains(schema_primitive_types, "object")
                                 /\ ~bitmap_contains(property_names_types, "string")
                                 /\ ~(schema_min_properties > 0) ->
                                    [schema |-> JObj(map_remove(
                                                    map_insert(object1, "maxProperties", JNum(0)),
                                                    "propertyNames")),
                                     changed |-> TRUE]
                              [] bitmap_contains(schema_primitive_types, "object")
                                 /\ bitmap_contains(property_names_types, "string")
                                 /\ IsObject(names1) ->
                                    IF DOMAIN names1.o = {"type"}
                                    THEN [schema |-> JObj(map_remove(object1, "propertyNames")),
                                          changed |-> TRUE]
                                    ELSE [schema |-> JObj(map_insert(object1, "propertyNames",
                                                                     JObj(r3.map))),
                                          changed |-> r3.changed]
                              [] OTHER -> [schema |-> JObj(object1), changed |-> FALSE]
                    IN [schema |-> second.schema, changed |-> r1.changed \/ second.changed]

-----------------------------------------------------------------------------
(* helpers/intersect.rs *)

\* the items of a list without the repetitions, first occurrences kept
Deduplicate(s) ==
    LET F[i \in 0..Len(s)] ==
            IF i = 0 THEN <<>>
            ELSE LET previous == F[i - 1]
                 IN IF SeqContains(previous, s[i]) THEN previous ELSE Append(previous, s[i])
    IN F[Len(s)]

\* helpers::join_and_deduplicate: the left items then the right ones, once each
join_and_deduplicate(schema_items, other_items) ==
    LET items == Deduplicate(schema_items \o other_items)
    IN [items |-> items, changed |-> items # schema_items]

\* helpers::common_values_and_deduplicate: the left items that the right has
common_values_and_deduplicate(schema_items, other_items) ==
    LET common == RemoveIndexes(schema_items,
                      {i \in 1..Len(schema_items) : ~SeqContains(other_items, schema_items[i])})
        items == Deduplicate(common)
    IN [items |-> items, changed |-> items # schema_items]

DEFFERRED_KEYWORDS ==
    {"additionalItems", "additionalProperties", "items", "patternProperties", "properties"}

IntersectStatus(v, status_, updated_schema) ==
    [schema |-> v, status |-> status_, updated |-> updated_schema]

\* one entry of the loop: what the key holds afterwards, whether the schema was
\* updated, whether the key was left unmerged, whether it made the whole
\* schema a `false` schema
MergedEntry(value_, updated_schema, unmerged_, false_) ==
    [value |-> value_, updated |-> updated_schema, unmerged |-> unmerged_, false |-> false_]

RECURSIVE intersection_schema(_, _)

\* `join_and_deduplicate` and `common_values_and_deduplicate` give `r`
MergedItems(r, false_) == MergedEntry(JArr(r.items), r.changed, FALSE, false_)

\* the recursive intersection gives `r`: its status is not looked at
MergedSchema(r) == MergedEntry(r.schema, r.updated, FALSE, FALSE)

MergedEnum(r) == MergedItems(r, Len(r.items) = 0)

\* the types left written back, the `false` schema forgotten when none is left
MergedTypeKeepsObject(schema_value, schema_primitive_types, final_primitive_types, r) ==
    IF schema_primitive_types # final_primitive_types
    THEN MergedEntry(IF contains_key(r.map, "type") THEN r.map["type"] ELSE schema_value,
                     TRUE, FALSE, FALSE)
    ELSE MergedEntry(schema_value, FALSE, FALSE, FALSE)

\* `type`: the types of the schema, those left, and the schema given those left
MergedType(schema_value, schema_primitive_types, final_primitive_types, r) ==
    IF schema_primitive_types # final_primitive_types
    THEN IF ~r.changed \/ ~contains_key(r.map, "type")
         THEN MergedEntry(schema_value, TRUE, FALSE, TRUE)
         ELSE MergedEntry(r.map["type"], TRUE, FALSE, FALSE)
    ELSE MergedEntry(schema_value, FALSE, FALSE, FALSE)

\* a key that both schemas hold, with different values
merge_values(key, schema_object, schema_value, other_value) ==
    CASE key \in {"allOf", "required"} ->
            IF IsArray(schema_value) /\ IsArray(other_value)
            THEN MergedItems(join_and_deduplicate(schema_value.a, other_value.a), FALSE)
            ELSE MergedEntry(schema_value, FALSE, FALSE, FALSE)
      [] key \in {"const", "contentEncoding", "contentMediaType", "format"} ->
            MergedEntry(schema_value, TRUE, FALSE, TRUE)
      [] key \in {"contains", "propertyNames"} ->
            MergedSchema(intersection_schema(schema_value, other_value))
      [] key = "enum" ->
            IF IsArray(schema_value) /\ IsArray(other_value)
            THEN MergedEnum(common_values_and_deduplicate(schema_value.a, other_value.a))
            ELSE MergedEntry(schema_value, FALSE, FALSE, FALSE)
      [] key \in {"exclusiveMaximum", "maxItems", "maxLength", "maxProperties", "maximum"} ->
            IF option_f64_lt(other_value, schema_value)
            THEN MergedEntry(other_value, TRUE, FALSE, FALSE)
            ELSE MergedEntry(schema_value, FALSE, FALSE, FALSE)
      [] key \in {"exclusiveMinimum", "minItems", "minLength", "minProperties", "minimum"} ->
            IF option_f64_lt(schema_value, other_value)
            THEN MergedEntry(other_value, TRUE, FALSE, FALSE)
            ELSE MergedEntry(schema_value, FALSE, FALSE, FALSE)
      [] key = "type" ->
            MergedType(schema_value, from_schema_value(schema_value),
                       from_schema_value(schema_value) \cap from_schema_value(other_value),
                       type_with(schema_object,
                                 from_schema_value(schema_value) \cap from_schema_value(other_value)))
      [] key = "uniqueItems" ->
            IF other_value = JTrue
            THEN MergedEntry(JTrue, schema_value # JTrue, FALSE, FALSE)
            ELSE MergedEntry(schema_value, FALSE, FALSE, FALSE)
      [] OTHER -> MergedEntry(schema_value, FALSE, TRUE, FALSE)

merge_entry(key, schema_object, other_schema_object) ==
    IF ~contains_key(schema_object, key)
    THEN MergedEntry(other_schema_object[key], TRUE, FALSE, FALSE)
    ELSE IF schema_object[key] = other_schema_object[key]
         THEN MergedEntry(schema_object[key], FALSE, FALSE, FALSE)
         ELSE merge_values(key, schema_object, schema_object[key], other_schema_object[key])

\* the schema after the loop: `merged` holds what each key of the other schema gave
intersect_result(schema_object, merged) ==
    IF \E key \in DOMAIN merged : merged[key].false
    THEN IntersectStatus(JFalse, "Complete", TRUE)
    ELSE IntersectStatus(
             JObj([key \in DOMAIN schema_object \cup DOMAIN merged |->
                      IF key \in DOMAIN merged THEN merged[key].value ELSE schema_object[key]]),
             IF \E key \in DOMAIN merged : merged[key].unmerged THEN "Partial" ELSE "Complete",
             \E key \in DOMAIN merged : merged[key].updated)

intersection_schema(v, other_schema) ==
    CASE other_schema = JFalse -> IntersectStatus(JFalse, "Complete", TRUE)
      [] other_schema # JFalse /\ ~IsObject(other_schema) -> IntersectStatus(v, "Complete", FALSE)
      [] IsObject(other_schema) /\ v = JTrue -> IntersectStatus(other_schema, "Complete", TRUE)
      [] IsObject(other_schema) /\ v # JTrue /\ ~IsObject(v) -> IntersectStatus(v, "Complete", FALSE)
      [] OTHER ->
            intersect_result(v.o, Map([key \in DOMAIN other_schema.o \ DEFFERRED_KEYWORDS |->
                                          merge_entry(key, v.o, other_schema.o)]))

-----------------------------------------------------------------------------
(* keywords/all_of.rs *)

\* simplify_all_of that would not look at the `type` of the outer schema
simplify_all_of_without_outer_type(v) ==
    IF ~IsObject(v) \/ ~IsArray(value_get(v, "allOf")) THEN Unchanged(v)
    ELSE LET schema_object == v.o
             schema_primitive_types == PRIMITIVE_TYPES_BIT_MAP_ALL_TYPES
             all_of == schema_object["allOf"].a
             indexes_to_remove == {i \in 1..Len(all_of) : true_schema(all_of[i])}
             items == RemoveIndexes(all_of, indexes_to_remove)
             all_of_primitive_types == [i \in 1..Len(items) |->
                                           from_schema_value(value_get(items[i], "type"))]
             \* common_all_of_primitive_types after the first i items
             common[i \in 0..Len(items)] ==
                 IF i = 0 THEN schema_primitive_types
                 ELSE common[i - 1] \cap all_of_primitive_types[i]
             defined_types_in_all_of == \E i \in 1..Len(items) : ~is_empty(all_of_primitive_types[i])
             common_all_of_primitive_types == common[Len(items)]
             retyped == [i \in 1..Len(items) |->
                            IF all_of_primitive_types[i] # common_all_of_primitive_types
                               /\ IsObject(items[i])
                            THEN type_with(items[i].o, common_all_of_primitive_types)
                            ELSE [map |-> EmptyMap, changed |-> FALSE]]
             new_items == [i \in 1..Len(items) |->
                              IF all_of_primitive_types[i] # common_all_of_primitive_types
                                 /\ IsObject(items[i])
                              THEN JObj(retyped[i].map) ELSE items[i]]
         IN CASE Len(items) = 0 ->
                    IF indexes_to_remove # {}
                    THEN [schema |-> JObj(map_remove(schema_object, "allOf")), changed |-> TRUE]
                    ELSE Unchanged(v)
              [] Len(items) > 0 /\ \E i \in 1..Len(items) : false_schema(items[i]) ->
                    with_false_schema(v)
              [] Len(items) > 0 /\ (\A i \in 1..Len(items) : ~false_schema(items[i]))
                 /\ \E i \in 1..Len(items) : is_empty(common[i]) ->
                    with_false_schema(v)
              [] OTHER ->
                    IF ~defined_types_in_all_of
                    THEN [schema |-> JObj(map_insert(schema_object, "allOf", JArr(items))),
                          changed |-> FALSE]
                    ELSE [schema |-> JObj(map_insert(schema_object, "allOf", JArr(new_items))),
                          changed |-> \E i \in 1..Len(items) : retyped[i].changed]

simplify_all_of(v) ==
    IF ~IsObject(v) \/ ~IsArray(value_get(v, "allOf")) THEN Unchanged(v)
    ELSE LET schema_object == v.o
             schema_primitive_types == from_schema_value(map_get(schema_object, "type"))
             all_of == schema_object["allOf"].a
             indexes_to_remove == {i \in 1..Len(all_of) : true_schema(all_of[i])}
             items == RemoveIndexes(all_of, indexes_to_remove)
             all_of_primitive_types == [i \in 1..Len(items) |->
                                           from_schema_value(value_get(items[i], "type"))]
             \* common_all_of_primitive_types after the first i items
             common[i \in 0..Len(items)] ==
                 IF i = 0 THEN schema_primitive_types
                 ELSE common[i - 1] \cap all_of_primitive_types[i]
             defined_types_in_all_of == \E i \in 1..Len(items) : ~is_empty(all_of_primitive_types[i])
             common_all_of_primitive_types == common[Len(items)]
             retyped == [i \in 1..Len(items) |->
                            IF all_of_primitive_types[i] # common_all_of_primitive_types
                               /\ IsObject(items[i])
                            THEN type_with(items[i].o, common_all_of_primitive_types)
                            ELSE [map |-> EmptyMap, changed |-> FALSE]]
             new_items == [i \in 1..Len(items) |->
                              IF all_of_primitive_types[i] # common_all_of_primitive_types
                                 /\ IsObject(items[i])
                              THEN JObj(retyped[i].map) ELSE items[i]]
         IN CASE Len(items) = 0 ->
                    IF indexes_to_remove # {}
                    THEN [schema |-> JObj(map_remove(schema_object, "allOf")), changed |-> TRUE]
                    ELSE Unchanged(v)
              [] Len(items) > 0 /\ \E i \in 1..Len(items) : false_schema(items[i]) ->
                    with_false_schema(v)
              [] Len(items) > 0 /\ (\A i \in 1..Len(items) : ~false_schema(items[i]))
                 /\ \E i \in 1..Len(items) : is_empty(common[i]) ->
                    with_false_schema(v)
              [] OTHER ->
                    IF ~defined_types_in_all_of
                    THEN [schema |-> JObj(map_insert(schema_object, "allOf", JArr(items))),
                          changed |-> FALSE]
                    ELSE [schema |-> JObj(map_insert(schema_object, "allOf", JArr(new_items))),
                          changed |-> \E i \in 1..Len(items) : retyped[i].changed]

\* one item of the loop: `r` is the intersection of the clone with the item
flatten_item(previous, i, r) ==
    [clone |-> r.schema,
     updated |-> previous.updated \/ r.updated,
     remove |-> IF r.status = "Complete" THEN previous.remove \cup {i} ELSE previous.remove]

flatten_step(previous, i, item) == flatten_item(previous, i, intersection_schema(previous.clone, item))

\* schema_clone, the flag and all_of_indexes_to_remove after the loop over the items
flatten_loop(v, all_of_items) ==
    LET step[i \in 0..Len(all_of_items)] ==
            IF i = 0 THEN [clone |-> v, updated |-> FALSE, remove |-> {}]
            ELSE flatten_step(step[i - 1], i, all_of_items[i])
    IN step[Len(all_of_items)]

\* what the schema becomes after the loop
flatten_result(v, all_of_items, last) ==
    CASE Cardinality(last.remove) = Len(all_of_items) ->
            [schema |-> IF IsObject(last.clone)
                        THEN JObj(map_remove(last.clone.o, "allOf")) ELSE last.clone,
             changed |-> TRUE]
      [] Cardinality(last.remove) # Len(all_of_items) /\ last.remove = {} ->
            [schema |-> IF last.updated THEN last.clone ELSE v, changed |-> last.updated]
      [] OTHER ->
            \* the items are removed from the schema that the clone then replaces
            [schema |-> last.clone, changed |-> TRUE]

\* the items merged and removed, and no update reported
flatten_all_of_unreported(v) ==
    IF ~IsObject(v) \/ ~IsArray(value_get(v, "allOf")) THEN Unchanged(v)
    ELSE [schema |-> flatten_result(v, v.o["allOf"].a, flatten_loop(v, v.o["allOf"].a)).schema,
          changed |-> FALSE]

flatten_all_of(v) ==
    IF ~IsObject(v) \/ ~IsArray(value_get(v, "allOf")) THEN Unchanged(v)
    ELSE flatten_result(v, v.o["allOf"].a, flatten_loop(v, v.o["allOf"].a))

(* keywords/any_of.rs *)

simplify_any_of(v) ==
    IF ~IsObject(v) \/ ~IsArray(value_get(v, "anyOf")) THEN Unchanged(v)
    ELSE LET schema_object == v.o
             schema_primitive_types == get_primitive_types(map_get(schema_object, "type"))
             any_of == schema_object["anyOf"].a
             indexes_to_remove ==
                 {i \in 1..Len(any_of) :
                     \/ false_schema(any_of[i])
                     \/ schema_primitive_types
                            \cap get_primitive_types(value_get(any_of[i], "type")) = {}}
             items == RemoveIndexes(any_of, indexes_to_remove)
             removed == JObj(map_insert(schema_object, "anyOf", JArr(items)))
         IN CASE Len(items) = 0 ->
                    IF indexes_to_remove # {} THEN with_false_schema(v) ELSE Unchanged(v)
              [] Len(items) > 0 /\ \E i \in 1..Len(items) : true_schema(items[i]) ->
                    [schema |-> JObj(map_remove(schema_object, "anyOf")), changed |-> TRUE]
              [] OTHER -> [schema |-> removed, changed |-> FALSE]

-----------------------------------------------------------------------------
(* keywords/mod.rs: the driver *)

\* the node-local rules, in the order they are applied
UPDATE_SCHEMA_METHODS == <<
    "remove_extraneous_keys_keyword_type",
    "remove_keywords_in_must_ignore_groups",
    "simplify_additional_items",
    "remove_empty_additional_properties",
    "simple_const_cleanup",
    "simple_enum_cleanup",
    "simplify_if",
    "simplify_items",
    "update_max_min_related_keywords",
    "optimise_property_names",
    "remove_empty_required",
    "optimise_keyword_type_if_array",
    "flatten_all_of",
    "simplify_all_of",
    "omit_keywords_that_do_not_alter_schema_selectivity">>

\* method(schema) for the method of that name
ApplyRule(method, v) ==
    CASE method = "remove_extraneous_keys_keyword_type" -> remove_extraneous_keys_keyword_type(v)
      [] method = "remove_keywords_in_must_ignore_groups" -> remove_keywords_in_must_ignore_groups(v)
      [] method = "simplify_additional_items" -> simplify_additional_items(v)
      [] method = "remove_empty_additional_properties" -> remove_empty_additional_properties(v)
      [] method = "simple_const_cleanup" -> simple_const_cleanup(v)
      [] method = "simple_enum_cleanup" -> simple_enum_cleanup(v)
      [] method = "simplify_if" -> simplify_if(v)
      [] method = "simplify_items" -> simplify_items(v)
      [] method = "update_max_min_related_keywords" -> update_max_min_related_keywords(v)
      [] method = "optimise_property_names" -> optimise_property_names(v)
      [] method = "remove_empty_required" -> remove_empty_required(v)
      [] method = "optimise_keyword_type_if_array" -> optimise_keyword_type_if_array(v)
      [] method = "flatten_all_of" -> flatten_all_of(v)
      [] method = "simplify_all_of" -> simplify_all_of(v)
      [] method = "simplify_any_of" -> simplify_any_of(v)
      [] method = "update_min_max_related_keywords" -> update_min_max_related_keywords(v)
      [] OTHER -> omit_keywords_that_do_not_alter_schema_selectivity(v)

\* `updated_schema |= ...`: the result `r` of a step, flagged if a step before was
OrUpdated(updated_schema, r) == IF updated_schema THEN [schema |-> r.schema, changed |-> TRUE] ELSE r

\* a loop that would go on after the schema has become a boolean
loop_never_left(previous) == FALSE

\* `if let Value::Bool(_) = result_schema { return result_schema; }`
loop_left(previous) == IsBool(previous.schema)

\* one method of the loop, skipped once the schema is a `true` or `false` schema
run_method(method, previous) ==
    IF loop_left(previous) THEN previous
    ELSE OrUpdated(previous.changed, ApplyRule(method, previous.schema))

\* the schema and the flag after each turn of the loop, from none to all
loop_states(v) ==
    LET run[i \in 0..Len(UPDATE_SCHEMA_METHODS)] ==
            IF i = 0 THEN Unchanged(v) ELSE run_method(UPDATE_SCHEMA_METHODS[i], run[i - 1])
    IN run

\* the methods run in order until the schema is a `true` or `false` schema
update_schema_no_recursive(v) == loop_states(v)[Len(UPDATE_SCHEMA_METHODS)]

RECURSIVE update_schema(_)

\* what update_schema does to the value of one sub-schema keyword: its
\* sub-schemas are updated, then the value itself is
\* the values of a map once each is updated: `r` holds the result for each key
UpdatedValues(r) ==
    [schema |-> JObj([k \in DOMAIN r |-> r[k].schema]), changed |-> \E k \in DOMAIN r : r[k].changed]

\* the items of an array once each is updated: `r` holds the result for each item
UpdatedItems(r) ==
    [schema |-> JArr([i \in 1..Len(r) |-> r[i].schema]), changed |-> \E i \in 1..Len(r) : r[i].changed]

\* the sub-schemas that the value of a sub-schema keyword holds are updated
update_inner(key, subschema) ==
    CASE IsObject(subschema) /\ key \in KEYWORDS_WITH_DIRECT_SUBSCHEMAS ->
            update_schema(subschema)
      [] IsObject(subschema) /\ key \notin KEYWORDS_WITH_DIRECT_SUBSCHEMAS ->
            UpdatedValues(Map([k \in DOMAIN subschema.o |-> update_schema(subschema.o[k])]))
      [] IsArray(subschema) ->
            UpdatedItems(Vec([i \in 1..Len(subschema.a) |-> update_schema(subschema.a[i])]))
      [] OTHER -> Unchanged(subschema)

\* `update_schema(subschema)` on the value itself, after its sub-schemas
update_outer(inner) == OrUpdated(inner.changed, update_schema(inner.schema))

\* what update_schema does to the value of one sub-schema keyword
update_subschema(key, subschema) == update_outer(update_inner(key, subschema))

\* the schema with its sub-schema keywords updated: `r` holds the result for each
Descended(v, r) ==
    [schema |-> JObj([key \in DOMAIN v.o |-> IF key \in DOMAIN r THEN r[key].schema ELSE v.o[key]]),
     changed |-> \E key \in DOMAIN r : r[key].changed]

\* `update_schema_no_recursive(schema)` after the descent
update_local(descended) ==
    OrUpdated(descended.changed, update_schema_no_recursive(descended.schema))

\* update_schema that would write a true-schema as `true`
update_schema_with_true(v) ==
    IF true_schema(v) THEN with_true_schema(v)
    ELSE IF ~IsObject(v) THEN Unchanged(v)
    ELSE update_local(Descended(v, Map([key \in DOMAIN v.o \cap KEYWORDS_WITH_SUBSCHEMAS |->
                                           update_subschema(key, v.o[key])])))

update_schema(v) ==
    IF ~IsObject(v) THEN Unchanged(v)
    ELSE update_local(Descended(v, Map([key \in DOMAIN v.o \cap KEYWORDS_WITH_SUBSCHEMAS |->
                                           update_subschema(key, v.o[key])])))

(* lib.rs *)

MAX_UPDATE_SCHEMA_ITERATIONS == 100

-----------------------------------------------------------------------------
(* tests/json_schema_test_suite.rs: a schema and its optimised form are    *)
(* compared by what they validate.  Validates(s, instance) is the validity *)
(* of a JSON instance against a schema, keyword by keyword; a keyword whose *)
(* value has not the shape the keyword asks for constrains nothing.        *)

\* the strings the model writes that a regular expression matches
Matches(pattern, string) ==
    CASE pattern = "a" -> string \in {"a", "ab"}
      [] pattern = "b" -> string \in {"ab"}
      [] OTHER -> FALSE

\* no string the model writes is a date or an e-mail address
ValidFormat(format, string) == FALSE

InstanceIsOfType(instance, pt) ==
    CASE pt = "integer" -> IsNumber(instance) /\ ~instance.f
      [] pt = "number" -> IsNumber(instance)
      [] OTHER -> instance.t # "num" /\ from_serde_value(instance) = pt

AllDifferent(a) == \A i, j \in 1..Len(a) : i # j => a[i] # a[j]

RECURSIVE Validates(_, _)

KeywordValidates(key, o, instance) ==
    LET value == o[key]
        isNum == IsNumber(instance)
        isStr == IsString(instance)
        isArr == IsArray(instance)
        isObj == IsObject(instance)
        properties == IF contains_key(o, "properties") /\ IsObject(o["properties"])
                      THEN o["properties"].o ELSE EmptyMap
        patterns == IF contains_key(o, "patternProperties") /\ IsObject(o["patternProperties"])
                    THEN o["patternProperties"].o ELSE EmptyMap
        prefix == IF contains_key(o, "items") /\ IsArray(o["items"]) THEN Len(o["items"].a) ELSE 0
    IN CASE key = "type" ->
               \/ IsString(value) /\ InstanceIsOfType(instance, value.s)
               \/ IsArray(value) /\ \E i \in 1..Len(value.a) :
                                        IsString(value.a[i]) /\ InstanceIsOfType(instance, value.a[i].s)
               \/ ~IsString(value) /\ ~IsArray(value)
         [] key = "const" -> instance = value
         [] key = "enum" -> IsArray(value) => SeqContains(value.a, instance)
         [] key = "maximum" -> (isNum /\ is_f64(value)) => as_f64(instance) <= as_f64(value)
         [] key = "minimum" -> (isNum /\ is_f64(value)) => as_f64(instance) >= as_f64(value)
         [] key = "exclusiveMaximum" -> (isNum /\ is_f64(value)) => as_f64(instance) < as_f64(value)
         [] key = "exclusiveMinimum" -> (isNum /\ is_f64(value)) => as_f64(instance) > as_f64(value)
         [] key = "multipleOf" ->
               (isNum /\ is_f64(value) /\ as_f64(value) > 0)
                   => as_f64(instance) % as_f64(value) = 0
         [] key = "maxLength" -> (isStr /\ is_f64(value)) => 2 * Len(instance.s) <= as_f64(value)
         [] key = "minLength" -> (isStr /\ is_f64(value)) => 2 * Len(instance.s) >= as_f64(value)
         [] key = "pattern" -> (isStr /\ IsString(value)) => Matches(value.s, instance.s)
         [] key = "format" -> (isStr /\ IsString(value)) => ValidFormat(value.s, instance.s)
         [] key = "maxItems" -> (isArr /\ is_f64(value)) => 2 * Len(instance.a) <= as_f64(value)
         [] key = "minItems" -> (isArr /\ is_f64(value)) => 2 * Len(instance.a) >= as_f64(value)
         [] key = "uniqueItems" -> (isArr /\ value = JTrue) => AllDifferent(instance.a)
         [] key = "items" ->
               isArr =>
                   IF IsArray(value)
                   THEN \A i \in 1..Len(instance.a) :
                            i <= Len(value.a) => Validates(value.a[i], instance.a[i])
                   ELSE \A i \in 1..Len(instance.a) : Validates(value, instance.a[i])
         [] key = "additionalItems" ->
               (isArr /\ contains_key(o, "items") /\ IsArray(o["items"]))
                   => \A i \in 1..Len(instance.a) : i > prefix => Validates(value, instance.a[i])
         [] key = "contains" -> isArr => \E i \in 1..Len(instance.a) : Validates(value, instance.a[i])
         [] key = "maxProperties" ->
               (isObj /\ is_f64(value)) => 2 * Cardinality(DOMAIN instance.o) <= as_f64(value)
         [] key = "minProperties" ->
               (isObj /\ is_f64(value)) => 2 * Cardinality(DOMAIN instance.o) >= as_f64(value)
         [] key = "required" ->
               (isObj /\ IsArray(value))
                   => \A i \in 1..Len(value.a) :
                          IsString(value.a[i]) => value.a[i].s \in DOMAIN instance.o
         [] key = "properties" ->
               (isObj /\ IsObject(value))
                   => \A p \in DOMAIN instance.o \cap DOMAIN value.o :
                          Validates(value.o[p], instance.o[p])
         [] key = "patternProperties" ->
               (isObj /\ IsObject(value))
                   => \A p \in DOMAIN instance.o : \A q \in DOMAIN value.o :
                          Matches(q, p) => Validates(value.o[q], instance.o[p])
         [] key = "additionalProperties" ->
               isObj => \A p \in DOMAIN instance.o :
                            (p \notin DOMAIN properties /\ \A q \in DOMAIN patterns : ~Matches(q, p))
                                => Validates(value, instance.o[p])
         [] key = "propertyNames" -> isObj => \A p \in DOMAIN instance.o : Validates(value, JStr(p))
         [] key = "dependencies" ->
               (isObj /\ IsObject(value))
                   => \A p \in DOMAIN instance.o \cap DOMAIN value.o :
                          IF IsArray(value.o[p])
                          THEN \A i \in 1..Len(value.o[p].a) :
                                   IsString(value.o[p].a[i]) => value.o[p].a[i].s \in DOMAIN instance.o
                          ELSE Validates(value.o[p], instance)
         [] key = "allOf" -> IsArray(value) => \A i \in 1..Len(value.a) : Validates(value.a[i], instance)
         [] key = "anyOf" -> IsArray(value) => \E i \in 1..Len(value.a) : Validates(value.a[i], instance)
         [] key = "oneOf" ->
               IsArray(value) => Cardinality({i \in 1..Len(value.a) : Validates(value.a[i], instance)}) = 1
         [] key = "not" -> ~Validates(value, instance)
         [] key = "if" ->
               IF Validates(value, instance)
               THEN contains_key(o, "then") => Validates(o["then"], instance)
               ELSE contains_key(o, "else") => Validates(o["else"], instance)
         [] OTHER -> TRUE

Validates(s, instance) ==
    CASE s = JFalse -> FALSE
      [] IsObject(s) -> \A key \in DOMAIN s.o : KeywordValidates(key, s.o, instance)
      [] OTHER -> TRUE

-----------------------------------------------------------------------------
(* The inputs: JSON values small enough to enumerate.                      *)

\* the largest number written in a schema
MaxNumber == 1

\* the largest number of keys of a generated object
MaxKeys == 2

\* the largest number of items of a generated `allOf`
MaxArms == 2

Obj1(k, v) == JObj(map_insert(EmptyMap, k, v))

Obj2(k1, v1, k2, v2) == JObj(map_insert(map_insert(EmptyMap, k1, v1), k2, v2))

Obj3(k1, v1, k2, v2, k3, v3) ==
    JObj(map_insert(map_insert(map_insert(EmptyMap, k1, v1), k2, v2), k3, v3))

Numbers == {JNum(n) : n \in 0..MaxNumber}

\* the sub-schemas written under a keyword
Leaves == {
    JTrue, JFalse,
    Obj1("type", JStr("integer")), Obj1("type", JStr("number")), Obj1("type", JStr("string")),
    Obj1("minLength", JNum(1)), Obj1("pattern", JStr("b")), Obj1("title", JStr("u"))}

FlatKeys == {
    "type", "minLength", "maxLength", "minItems", "maxItems", "minimum", "maximum",
    "const", "enum", "pattern", "required", "uniqueItems", "format", "title",
    "items", "additionalItems", "additionalProperties", "propertyNames", "not",
    "if", "then", "else", "properties", "anyOf"}

FlatValues(key) ==
    CASE key = "type" ->
            {JStr("integer"), JStr("string"), JArr(<<JStr("number"), JStr("string")>>), JArr(<<>>)}
      [] key \in {"minLength", "maxLength", "minItems", "maxItems", "minimum", "maximum"} -> Numbers
      [] key = "const" -> {JStr("a")}
      [] key = "enum" -> {JArr(<<JNum(1), JStr("a")>>), JArr(<<>>)}
      [] key = "pattern" -> {JStr("a")}
      [] key = "required" -> {JArr(<<>>), JArr(<<JStr("a")>>)}
      [] key = "uniqueItems" -> {JFalse}
      [] key = "format" -> {JStr("date")}
      [] key = "title" -> {JStr("t")}
      [] key = "items" -> {JFalse, Obj1("type", JStr("string")),
                           JArr(<<JTrue, Obj1("type", JStr("string"))>>)}
      [] key = "additionalItems" -> {JFalse}
      [] key = "additionalProperties" -> {JFalse, EmptyObject}
      [] key = "propertyNames" -> {JFalse, Obj1("type", JStr("integer")), Obj1("minLength", JNum(1))}
      [] key = "not" -> {Obj1("type", JStr("string"))}
      [] key = "if" -> {JFalse, Obj1("minLength", JNum(1))}
      [] key = "then" -> {Obj1("minLength", JNum(0))}
      [] key = "else" -> {Obj1("maxLength", JNum(0))}
      [] key = "properties" -> {Obj1("a", Obj1("type", JStr("string"))),
                                Obj1("if", Obj1("type", JStr("string")))}
      [] OTHER -> {JArr(<<JTrue, Obj1("type", JStr("string"))>>)}

\* the maps of `maps` with one key more
Extend(maps) ==
    UNION {UNION {{map_insert(o, key, value) : value \in FlatValues(key)} :
                      key \in FlatKeys \ DOMAIN o} : o \in maps}

MapsUpTo[n \in 0..MaxKeys] ==
    IF n = 0 THEN {EmptyMap}
    ELSE LET previous == MapsUpTo[n - 1] IN previous \cup Extend(previous)

\* the objects of at most MaxKeys keys
FlatObjects == {JObj(o) : o \in MapsUpTo[MaxKeys]}

SeqsUpTo(S, n) == UNION {[1..m -> S] : m \in 0..n}

\* the keywords an `allOf` is written next to
AllOfSiblings == {
    EmptyMap,
    map_insert(EmptyMap, "type", JStr("string")),
    map_insert(EmptyMap, "type", JStr("boolean")),
    map_insert(EmptyMap, "pattern", JStr("a")),
    map_insert(EmptyMap, "title", JStr("t"))}

AllOfObjects ==
    {JObj(map_insert(o, "allOf", JArr(arms))) :
         o \in AllOfSiblings, arms \in SeqsUpTo(Leaves, MaxArms)}

\* the values of `type`, some of them not in the order the library writes them
TypeValues == {
    JStr("integer"), JStr("number"), JStr("string"), JStr("null"),
    JArr(<<JStr("number"), JStr("string")>>), JArr(<<JStr("string"), JStr("integer")>>),
    JArr(<<JStr("null"), JStr("integer"), JStr("number")>>)}

\* what from_schema_value is given: no `type`, a name, an array of names for
\* every set of types, and values that are no `type`
TypeKeywordValues ==
    TypeValues
        \cup {NONE, JNum(1), JStr("x"), JArr(<<JStr("x")>>), JArr(<<JStr("number"), JStr("integer")>>)}
        \cup {JStr(pt) : pt \in PrimitiveTypes}
        \cup {JArr(TypeNames(types)) : types \in SUBSET PrimitiveTypes}

\* an `allOf` whose items hold nothing but `type`
TypeOnlyAllOf ==
    {Obj1("allOf", JArr([i \in DOMAIN types |-> Obj1("type", types[i])])) :
         types \in SeqsUpTo(TypeValues, MaxArms) \ {<<>>}}

\* what is no schema
NotSchemas == {JNull, JNum(1), JHalf(1), JStr("a"), JArr(<<>>), JArr(<<EmptyObject>>)}

\* the scenarios of the documentation and of the tests
Scenarios == {
    Obj3("if", JFalse, "then", Obj1("minLength", JNum(0)), "else", Obj1("maxLength", JNum(0))),
    Obj3("type", JStr("number"), "maximum", JNum(1), "minimum", JNum(2)),
    Obj3("type", JStr("string"), "if", Obj1("minLength", JNum(1)), "then", JFalse),
    Obj2("enum", JArr(<<JNum(1), JNum(2), JNum(3)>>), "type", JStr("string")),
    Obj2("additionalItems", JFalse, "items", JArr(<<JTrue, JTrue, JTrue>>)),
    Obj1("allOf", JArr(<<Obj1("items", JFalse)>>)),
    Obj1("allOf", JArr(<<Obj1("properties", Obj1("a", Obj1("type", JStr("string"))))>>)),
    Obj1("not", JNum(1)),
    Obj1("properties", Obj1("a", JStr("a"))),
    Obj2("maxProperties", JNum(0), "minProperties", JNum(1)),
    Obj2("type", JStr("object"), "propertyNames", Obj1("minLength", JNum(1))),
    Obj1("allOf", JArr(<<EmptyObject, Obj1("type", JStr("string"))>>)),
    Obj1("anyOf", JArr(<<JFalse, Obj1("type", JStr("string"))>>)),
    Obj1("not", Obj2("title", JStr("u"), "minLength", JNum(0))),
    Obj1("propertyNames", Obj1("title", JStr("u"))),
    Obj3("type", JArr(<<JStr("number"), JStr("string")>>), "minLength", JNum(1), "minItems", JNum(1)),
    Obj1("type", JArr([i \in 1..Len(PrimitiveTypeOrder) |-> JStr(PrimitiveTypeOrder[i])])),
    Obj3("additionalItems", JFalse, "items", JArr(<<JTrue, JTrue, JTrue>>), "maxItems", JNum(2)),
    Obj3("additionalItems", JFalse, "items", JArr(<<JTrue, JTrue, JTrue>>), "maxItems", JNum(4)),
    Obj2("type", JArr(<<>>), "allOf", JArr(<<JTrue>>)),
    Obj2("const", JNum(1), "type", JArr(<<JStr("array"), JStr("integer")>>)),
    Obj2("const", JNum(1), "type", JArr(<<JStr("array"), JStr("number")>>)),
    Obj2("const", JNum(1), "type", JArr(<<JStr("integer"), JStr("number")>>)),
    Obj2("const", JNum(1), "type", JStr("string")),
    Obj2("const", JArr(<<>>), "type", JArr(<<JStr("string")>>)),
    Obj1("const", JArr(<<>>)),
    Obj3("type", JStr("null"), "maximum", JNum(1), "minimum", JNum(2)),
    Obj3("type", JArr(<<JStr("null"), JStr("number")>>), "maximum", JNum(1), "minimum", JNum(2)),
    Obj3("type", JArr(<<JStr("array"), JStr("null")>>), "maxItems", JNum(1), "minItems", JNum(2)),
    Obj3("type", JStr("string"), "maxLength", JNum(0), "minLength", JNum(1)),
    Obj3("type", JArr(<<JStr("number"), JStr("object")>>), "minProperties", JNum(1),
         "propertyNames", JFalse),
    Obj3("type", JStr("object"), "minProperties", JNum(1),
         "propertyNames", Obj1("type", JStr("number"))),
    Obj3("type", JStr("object"), "minProperties", JNum(0), "propertyNames", JFalse),
    Obj2("type", JStr("object"), "propertyNames", Obj1("type", JStr("number"))),
    Obj2("minProperties", JNum(1), "propertyNames", JFalse),
    Obj3("maxProperties", JNum(1), "propertyNames", JNum(1), "title", JStr("t")),
    Obj1("const", Obj2("type", JStr("string"), "minimum", JNum(1))),
    Obj1("enum", JArr(<<Obj2("type", JStr("string"), "minimum", JNum(1)), JNum(1)>>)),
    Obj1("properties", Obj2("if", JFalse, "then", JFalse)),
    Obj1("patternProperties", Obj2("if", JFalse, "then", JFalse)),
    Obj1("dependencies", Obj2("if", JFalse, "then", JFalse)),
    Obj1("properties", Obj3("a", JFalse, "if", JFalse, "then", JFalse)),
    Obj1("properties", Obj2("a", JFalse, "additionalProperties", JTrue)),
    Obj1("properties", Obj2("a", Obj2("type", JStr("string"), "minimum", JNum(1)), "b", JTrue)),
    Obj2("type", JStr("string"), "allOf", JArr(<<JNum(1), Obj1("type", JArr(<<JStr("string"), JStr("null")>>))>>))}

Inputs ==
    FlatObjects \cup AllOfObjects \cup TypeOnlyAllOf \cup NotSchemas \cup Scenarios \cup {JTrue, JFalse}

\* the instances validated
Instances == {
    JNull, JTrue, JFalse, JNum(0), JNum(1), JNum(2), JHalf(1), JStr(""), JStr("a"), JStr("ab"),
    JArr(<<>>), JArr(<<JNum(1)>>), JArr(<<JStr("a"), JStr("a")>>),
    EmptyObject, Obj1("a", JNum(1)), Obj1("a", JStr("a")), Obj1("if", JNum(1))}

-----------------------------------------------------------------------------
(* lib.rs: jsonschema_equivalent_ref, one round of its loop at a time; the *)
(* caller may hand the result to jsonschema_equivalent once more.          *)

Idle == /\ rule = "none" /\ before = NONE /\ other = NONE /\ after = NONE
        /\ flag = FALSE /\ status = "idle"

Init ==
    /\ input \in Inputs
    /\ schema = input
    /\ passes = 0
    /\ changed = FALSE
    /\ pc = "loop"
    /\ calls = 1
    /\ Idle

\* `if !keywords::update_schema(schema) { return schema; }`, update reported
UpdateReported ==
    /\ pc = "loop"
    /\ passes < MAX_UPDATE_SCHEMA_ITERATIONS
    /\ \E r \in {update_schema(schema)} :
           /\ r.changed
           /\ schema' = r.schema
           /\ changed' = TRUE
    /\ passes' = passes + 1
    /\ UNCHANGED <<input, pc, calls, rule, before, other, after, flag, status>>

\* the condition of the early return inverted: the loop returns on an update
ReturnOnUpdate ==
    /\ pc = "loop"
    /\ passes < MAX_UPDATE_SCHEMA_ITERATIONS
    /\ \E r \in {update_schema(schema)} :
           /\ r.changed
           /\ schema' = r.schema
           /\ changed' = TRUE
    /\ passes' = passes + 1
    /\ pc' = "returned"
    /\ UNCHANGED <<input, calls, rule, before, other, after, flag, status>>

\* the same, no update reported: the early return
NoUpdateReported ==
    /\ pc = "loop"
    /\ passes < MAX_UPDATE_SCHEMA_ITERATIONS
    /\ \E r \in {update_schema(schema)} :
           /\ ~r.changed
           /\ schema' = r.schema
           /\ changed' = FALSE
    /\ passes' = passes + 1
    /\ pc' = "returned"
    /\ UNCHANGED <<input, calls, rule, before, other, after, flag, status>>

\* the loop ran out of rounds: log::info! and return
RoundsExhausted ==
    /\ pc = "loop"
    /\ passes = MAX_UPDATE_SCHEMA_ITERATIONS
    /\ pc' = "logged"
    /\ UNCHANGED <<input, schema, passes, changed, calls, rule, before, other, after, flag, status>>

\* jsonschema_equivalent called on what the first call returned
CallAgain ==
    /\ pc \in {"returned", "logged"}
    /\ calls = 1
    /\ input' = schema
    /\ passes' = 0
    /\ changed' = FALSE
    /\ pc' = "loop"
    /\ calls' = 2
    /\ UNCHANGED <<schema, rule, before, other, after, flag, status>>

Next == UpdateReported \/ NoUpdateReported \/ RoundsExhausted \/ CallAgain

Spec == Init /\ [][Next]_vars

-----------------------------------------------------------------------------
(* The functions called on their own, as the unit tests call them:         *)
(* base_test_keyword_processor (lib.rs) for the rules and update_schema,   *)
(* the tests of helpers/intersect.rs for intersection_schema and those of  *)
(* helpers/mod.rs for preserve_keys.                                       *)

RuleNames ==
    {UPDATE_SCHEMA_METHODS[i] : i \in 1..Len(UPDATE_SCHEMA_METHODS)}
        \cup {"simplify_any_of", "update_min_max_related_keywords"}

\* the two arguments of intersection_schema
IntersectInputs == Leaves \cup {JObj(o) : o \in MapsUpTo[1]} \cup {
    Obj1("format", JStr("email")), Obj1("contains", Obj1("type", JStr("string"))),
    Obj1("contains", Obj1("minLength", JNum(1))), Obj1("propertyNames", Obj1("pattern", JStr("b"))),
    Obj1("contentEncoding", JStr("base64")), Obj1("contentEncoding", JStr("7bit")),
    Obj1("contentMediaType", JStr("text/html")), Obj1("contentMediaType", JStr("text/css")),
    Obj1("uniqueItems", JTrue), Obj1("minLength", JStr("a")), Obj1("title", JStr("u")),
    Obj1("type", JArr(<<JStr("string"), JStr("integer"), JStr("null")>>))}
    \cup {Obj1("type", type_) : type_ \in TypeValues}

\* the sets of keys preserve_keys is given
KeysToPreserve == {{}, KEYWORDS_TYPE_STRING, KEYWORDS_TYPE_OBJECT, KEYWORDS, {"title"}}

DriverIdle == /\ input = NONE /\ schema = NONE /\ passes = 0 /\ changed = FALSE
              /\ pc = "idle" /\ calls = 0

RuleInit ==
    /\ rule \in RuleNames \cup {"update_schema", "update_schema_no_recursive",
                                "intersection_schema", "preserve_keys", "to_schema_value"}
    /\ before \in IF rule = "intersection_schema" THEN IntersectInputs
                  ELSE IF rule \in {"preserve_keys", "update_schema_no_recursive"}
                       THEN {v \in Inputs : IsObject(v)}
                       ELSE IF rule = "to_schema_value" THEN TypeKeywordValues
                       ELSE Inputs
    /\ other \in IF rule = "intersection_schema" THEN IntersectInputs ELSE {NONE}
    /\ after = before
    /\ flag = FALSE
    /\ status = "ready"
    /\ DriverIdle

\* one rule on a schema
CallRule ==
    /\ status = "ready"
    /\ rule \in RuleNames
    /\ \E r \in {ApplyRule(rule, before)} :
           /\ after' = r.schema
           /\ flag' = r.changed
    /\ status' = "applied"
    /\ UNCHANGED <<input, schema, passes, changed, pc, calls, rule, before, other>>

CallUpdateSchema ==
    /\ status = "ready"
    /\ rule = "update_schema"
    /\ \E r \in {update_schema(before)} :
           /\ after' = r.schema
           /\ flag' = r.changed
    /\ status' = "applied"
    /\ UNCHANGED <<input, schema, passes, changed, pc, calls, rule, before, other>>

\* the node-local methods on an object, as update_schema calls them
CallUpdateSchemaNoRecursive ==
    /\ status = "ready"
    /\ rule = "update_schema_no_recursive"
    /\ \E r \in {update_schema_no_recursive(before)} :
           /\ after' = r.schema
           /\ flag' = r.changed
    /\ status' = "applied"
    /\ UNCHANGED <<input, schema, passes, changed, pc, calls, rule, before, other>>

CallIntersectionSchema ==
    /\ status = "ready"
    /\ rule = "intersection_schema"
    /\ \E r \in {intersection_schema(before, other)} :
           /\ after' = r.schema
           /\ flag' = r.updated
           /\ status' = r.status
    /\ UNCHANGED <<input, schema, passes, changed, pc, calls, rule, before, other>>

CallPreserveKeys ==
    /\ status = "ready"
    /\ rule = "preserve_keys"
    /\ \E keys_to_preserve \in KeysToPreserve :
           after' = JObj(preserve_keys(before.o, keys_to_preserve))
    /\ flag' = FALSE
    /\ status' = "applied"
    /\ UNCHANGED <<input, schema, passes, changed, pc, calls, rule, before, other>>

\* the set of types read from a value of `type` is written back as one
CallToSchemaValue ==
    /\ status = "ready"
    /\ rule = "to_schema_value"
    /\ after' = to_schema_value(from_schema_value(before))
    /\ flag' = FALSE
    /\ status' = "applied"
    /\ UNCHANGED <<input, schema, passes, changed, pc, calls, rule, before, other>>

RuleNext ==
    \/ CallRule
    \/ CallUpdateSchema
    \/ CallUpdateSchemaNoRecursive
    \/ CallIntersectionSchema
    \/ CallPreserveKeys
    \/ CallToSchemaValue

RuleSpec == RuleInit /\ [][RuleNext]_vars

-----------------------------------------------------------------------------
(* The measure of a schema: its keywords and its sub-schemas, over the tree *)

RECURSIVE Size(_), SizeOfValues(_, _), SizeOfKeys(_, _)

\* the sub-schemas a keyword holds, as a map or a sequence of them
Subschemas(key, value) ==
    CASE key \in KEYWORDS_WITH_DIRECT_SUBSCHEMAS -> <<value>>
      [] key = "items" /\ ~IsArray(value) -> <<value>>
      [] key \in {"allOf", "anyOf", "oneOf", "items"} /\ IsArray(value) -> value.a
      [] key \in {"properties", "patternProperties", "dependencies"} /\ IsObject(value) -> value.o
      [] OTHER -> <<>>

\* each of the sub-schemas `subschemas` holds at `positions` counts for one, and for its own size
SizeOfValues(subschemas, positions) ==
    IF positions = {} THEN 0
    ELSE LET k == CHOOSE x \in positions : TRUE
         IN 1 + Size(subschemas[k]) + SizeOfValues(subschemas, positions \ {k})

\* each of the keywords `keys` of `o` counts for one, and for its sub-schemas
SizeOfKeys(o, keys) ==
    IF keys = {} THEN 0
    ELSE LET k == CHOOSE x \in keys : TRUE
             subschemas == Subschemas(k, o[k])
         IN 1 + SizeOfValues(subschemas, DOMAIN subschemas) + SizeOfKeys(o, keys \ {k})

Size(v) == IF IsObject(v) THEN SizeOfKeys(v.o, DOMAIN v.o) ELSE 0

-----------------------------------------------------------------------------
(* What is claimed of jsonschema_equivalent, checked under Spec.           *)

\* the first call has returned
FirstCallReturned == calls = 1 /\ pc \in {"returned", "logged"}

\* the call on the result of the first call has returned
SecondCallReturned == calls = 2 /\ pc \in {"returned", "logged"}

\* C1: an instance validates against the schema that jsonschema_equivalent
\* returns if and only if it validates against the schema it was given.
C1_SameAcceptedSet ==
    FirstCallReturned => \A instance \in Instances : Validates(schema, instance) <=> Validates(input, instance)

C3_Loop ==
    [][/\ passes' <= MAX_UPDATE_SCHEMA_ITERATIONS
       /\ passes' = passes + 1 =>
              /\ pc = "loop"
              /\ schema' = update_schema(schema).schema
              /\ changed' = update_schema(schema).changed
              /\ pc' = IF changed' THEN "loop" ELSE "returned"
       /\ (pc = "loop" /\ pc' # "loop") =>
              \/ passes' = passes + 1 /\ ~changed'
              \/ /\ passes = MAX_UPDATE_SCHEMA_ITERATIONS
                 /\ changed
                 /\ pc' = "logged"
                 /\ schema' = schema]_vars

\* the 100th pass reported an update and the schema was returned
C3_RoundsExhausted == pc = "logged" /\ passes = MAX_UPDATE_SCHEMA_ITERATIONS /\ changed /\ calls = 1

\* what is no schema: neither an object nor a boolean
NotASchema(v) == ~IsObject(v) /\ ~IsBool(v)

\* every rule, and update_schema, leaves `v` as it is and reports no update
PassedThrough(v) ==
    /\ \A method \in RuleNames : ApplyRule(method, v) = Unchanged(v)
    /\ update_schema(v) = Unchanged(v)

\* C5: a value that is neither an object nor a boolean, given as the schema
\* or found where a keyword holds its sub-schema, is left unchanged by every
\* rule, which reports no update; jsonschema_equivalent returns it as it was
\* given, after the one pass that reports no update.
C5_NotASchemaUnchanged ==
    /\ NotASchema(input) =>
           /\ schema = input
           /\ PassedThrough(schema)
           /\ pc # "logged"
           /\ pc = "returned" => passes = 1 /\ ~changed
    /\ IsObject(schema) =>
           \A key \in DOMAIN schema.o \cap KEYWORDS_WITH_DIRECT_SUBSCHEMAS :
               NotASchema(schema.o[key]) => PassedThrough(schema.o[key])

\* jsonschema_equivalent has returned a value that is no schema
C5_NotASchemaReturned == NotASchema(input) /\ FirstCallReturned /\ passes = 1

-----------------------------------------------------------------------------
(* What is claimed of the functions, checked under RuleSpec.               *)

\* a rule, or update_schema, was called and has returned
RuleApplied == status = "applied" /\ rule \in RuleNames \cup {"update_schema"}

\* C4: a rule, and update_schema, report an update if and only if the schema
\* after the call differs from the schema before it.
C4_FlagIffChanged == RuleApplied => (flag <=> after # before)

\* the keys of `old` that are no keywords are keys of `new`, with the values they had
NonKeywordsKept(old, new) ==
    \A key \in DOMAIN old.o \ KEYWORDS : contains_key(new.o, key) /\ new.o[key] = old.o[key]

\* C6: a schema that is still an object after a rule, a pass of update_schema,
\* an intersection or preserve_keys holds every key it held that is no
\* keyword, with its value; so does each sub-schema it still holds.
C6_UnknownKeysPreserved ==
    (status # "ready" /\ IsObject(before) /\ IsObject(after)) =>
        /\ NonKeywordsKept(before, after)
        /\ \A key \in KEYWORDS_WITH_DIRECT_SUBSCHEMAS \cap DOMAIN before.o \cap DOMAIN after.o :
               (IsObject(before.o[key]) /\ IsObject(after.o[key]))
                   => NonKeywordsKept(before.o[key], after.o[key])

\* preserve_keys removed keywords from a schema that holds a key that is no keyword
C6_KeywordsRemoved ==
    /\ status = "applied"
    /\ rule = "preserve_keys"
    /\ contains_key(before.o, "title")
    /\ after # before

\* C8: after intersection_schema(A, B) the left schema accepts what A and B
\* both accept when the status is Complete, and together with B it accepts
\* what A and B both accept when the status is Partial.
C8_IntersectionCorrect ==
    /\ status = "Complete" =>
           \A instance \in Instances :
               Validates(after, instance) <=> (Validates(before, instance) /\ Validates(other, instance))
    /\ status = "Partial" =>
           \A instance \in Instances :
               (Validates(after, instance) /\ Validates(other, instance))
                   <=> (Validates(before, instance) /\ Validates(other, instance))

-----------------------------------------------------------------------------
(* What is claimed of the result of jsonschema_equivalent, under Spec.     *)

RECURSIVE Mentions(_, _)

\* some object of the tree of `v` holds one of the keys `names`
Mentions(v, names) ==
    CASE IsObject(v) ->
            \/ DOMAIN v.o \cap names # {}
            \/ \E key \in DOMAIN v.o : Mentions(v.o[key], names)
      [] IsArray(v) -> \E i \in 1..Len(v.a) : Mentions(v.a[i], names)
      [] OTHER -> FALSE

CommonTypes(v) ==
    LET all_of == v.o["allOf"].a
    IN {pt \in PrimitiveTypes : \A i \in 1..Len(all_of) : pt \in from_schema_value(all_of[i].o["type"])}

TypeSchema(types) == IF to_schema_value(types) = NONE THEN EmptyObject ELSE Obj1("type", to_schema_value(types))

IntegerAndNumber == Obj1("allOf", JArr(<<Obj1("type", JStr("integer")), Obj1("type", JStr("number"))>>))

IfFalse == Obj3("if", JFalse, "then", Obj1("minLength", JNum(0)), "else", Obj1("maxLength", JNum(0)))

-----------------------------------------------------------------------------
(* What is claimed of the keyword groups and of the rules of type_.rs.     *)

\* the keywords of the groups of the primitive types `types`
KeywordsOfTypes(types) == UNION {KeywordsOfType(pt) : pt \in types}

\* C11: the groups of keywords of the seven primitive types hold, together,
\* every known keyword, `if`, `then` and `else` as well: whatever known keyword
\* a schema given to a rule holds, some group holds it.
C11_GroupsCoverKeywords ==
    IsObject(before) =>
        /\ KeywordsOfTypes(PrimitiveTypes) = KEYWORDS
        /\ DOMAIN before.o \cap KEYWORDS \subseteq KeywordsOfTypes(PrimitiveTypes)

\* the recognised primitive types that a value of `type` names
NamedTypes(type_) ==
    {pt \in PrimitiveTypes : type_ = JStr(pt) \/ (IsArray(type_) /\ SeqContains(type_.a, JStr(pt)))}

\* remove_extraneous_keys_keyword_type was called on an object and has returned
TypePruned ==
    status = "applied" /\ rule = "remove_extraneous_keys_keyword_type" /\ IsObject(before)

\* C12: on a schema whose `type` names a recognised primitive type,
\* remove_extraneous_keys_keyword_type removes the known keywords that are in
\* the group of none of the types named, and nothing else; the other keys keep
\* their values and `type` allows the same types.  A schema whose `type` is
\* missing, or names no recognised type, is left as it is.
C12_TypeDrivenPruning ==
    TypePruned =>
        LET types == NamedTypes(map_get(before.o, "type"))
        IN /\ types = {} => after = before /\ ~flag
           /\ types # {} =>
                  /\ IsObject(after)
                  /\ DOMAIN after.o = DOMAIN before.o \ (KEYWORDS \ KeywordsOfTypes(types))
                  /\ \A key \in DOMAIN after.o \ {"type"} : after.o[key] = before.o[key]
                  /\ NamedTypes(after.o["type"]) \cup {"integer"} = types \cup {"integer"}
                  /\ "integer" \in types => {"integer", "number"} \cap NamedTypes(after.o["type"]) # {}
           /\ before = Obj2("type", JStr("string"), "minimum", JNum(1))
                  => after = Obj1("type", JStr("string"))
           /\ before = Obj3("type", JArr(<<JStr("number"), JStr("string")>>),
                            "minLength", JNum(1), "minItems", JNum(1))
                  => after = Obj2("type", JArr(<<JStr("number"), JStr("string")>>), "minLength", JNum(1))

\* the rule pruned a schema of two types, of a keyword of neither
C12_PrunedOfTwoTypes ==
    /\ TypePruned
    /\ before = Obj3("type", JArr(<<JStr("number"), JStr("string")>>),
                     "minLength", JNum(1), "minItems", JNum(1))
    /\ flag

\* the `type` of the object `v` is missing, or written as the library writes
\* a set of types: not all seven of them, `integer` never next to `number`,
\* one type as a string, several as an array in the order of PrimitiveType
CanonicalType(v) ==
    contains_key(v.o, "type") =>
        LET type_ == v.o["type"]
            types == NamedTypes(type_)
        IN types # {} =>
               /\ types \cup (IF "number" \in types THEN {"integer"} ELSE {}) # PrimitiveTypes
               /\ ~({"integer", "number"} \subseteq types)
               /\ Cardinality(types) = 1 => IsString(type_)
               /\ Cardinality(types) > 1 => IsArray(type_) /\ type_.a = TypeNames(types)

RECURSIVE TypesCanonical(_)

\* CanonicalType of `v` and of every sub-schema under it
TypesCanonical(v) ==
    IsObject(v) =>
        /\ CanonicalType(v)
        /\ \A key \in DOMAIN v.o :
               \A at \in DOMAIN Subschemas(key, v.o[key]) : TypesCanonical(Subschemas(key, v.o[key])[at])

\* C13: once a pass reports no update, the `type` of every object of the
\* schema returned is in canonical form.
C13_TypeCanonicalAfterConvergence ==
    (FirstCallReturned /\ pc = "returned") => TypesCanonical(schema)

-----------------------------------------------------------------------------
(* What is claimed of simplify_additional_items.                           *)

\* simplify_additional_items was called on {"additionalItems": false, "items": [...]}
AdditionalItemsClosed ==
    /\ status = "applied"
    /\ rule = "simplify_additional_items"
    /\ IsObject(before)
    /\ map_get(before.o, "additionalItems") = JFalse
    /\ IsArray(map_get(before.o, "items"))

ThreeItems == JArr(<<JTrue, JTrue, JTrue>>)

\* C14: with `additionalItems` false and `items` an array of L schemas,
\* simplify_additional_items removes `additionalItems`, leaves `items` and
\* the other keys, and sets `maxItems` to L, unless `maxItems` was a smaller
\* unsigned integer already, which stays.
C14_MaxItemsTightened ==
    AdditionalItemsClosed =>
        LET L == Len(before.o["items"].a)
            existing == map_get(before.o, "maxItems")
            smaller == IsNumber(existing) /\ ~existing.f /\ existing.n >= 0 /\ existing.n < L
        IN /\ flag
           /\ IsObject(after)
           /\ DOMAIN after.o = (DOMAIN before.o \ {"additionalItems"}) \cup {"maxItems"}
           /\ \A key \in DOMAIN after.o \ {"maxItems"} : after.o[key] = before.o[key]
           /\ after.o["maxItems"] = IF smaller THEN existing ELSE JNum(L)
           /\ before = Obj2("additionalItems", JFalse, "items", ThreeItems)
                  => after = Obj2("items", ThreeItems, "maxItems", JNum(3))
           /\ before = Obj3("additionalItems", JFalse, "items", ThreeItems, "maxItems", JNum(2))
                  => after = Obj2("items", ThreeItems, "maxItems", JNum(2))

\* the rule was given three items and a `maxItems` of 2
C14_SmallerMaxItemsKept ==
    /\ AdditionalItemsClosed
    /\ before = Obj3("additionalItems", JFalse, "items", ThreeItems, "maxItems", JNum(2))

-----------------------------------------------------------------------------
(* What is claimed of intersection_schema(left, right), left and right     *)
(* being `before` and `other`, the left schema afterwards `after`.         *)

\* intersection_schema was called on two objects and has returned
Intersected ==
    /\ rule = "intersection_schema"
    /\ status \in {"Complete", "Partial"}
    /\ IsObject(before)
    /\ IsObject(other)

\* C15: when intersection_schema returns Complete on two objects and the left
\* one is still an object, the left one holds every key of the right one, with
\* the value of the right one where the left one did not hold the key.
C15_RightAbsorbed ==
    (Intersected /\ status = "Complete" /\ IsObject(after)) =>
        \A key \in DOMAIN other.o :
            /\ contains_key(after.o, key)
            /\ ~contains_key(before.o, key) => after.o[key] = other.o[key]

\* the keywords whose values intersection_schema does not merge
UnmergedKeywords == {
    "anyOf", "dependencies", "else", "if", "items", "additionalItems", "additionalProperties",
    "patternProperties", "properties", "multipleOf", "not", "oneOf", "pattern", "then"}

\* C16: when the two objects hold different values for one of the keywords
\* that are not merged, or for a key that is no keyword, the left one keeps its
\* value for it and intersection_schema returns Partial.
C16_UnmergedIsPartial ==
    Intersected =>
        \A key \in DOMAIN before.o \cap DOMAIN other.o :
            ((key \in UnmergedKeywords \/ key \notin KEYWORDS) /\ before.o[key] # other.o[key]) =>
                /\ status = "Partial"
                /\ IsObject(after)
                /\ after.o[key] = before.o[key]

\* the primitive types that a value of `type` allows: `number` allows `integer`
AllowedTypes(type_) ==
    NamedTypes(type_) \cup (IF "number" \in NamedTypes(type_) THEN {"integer"} ELSE {})

\* how the library writes the types `types`, one at least and not all
CanonicalForm(types) ==
    LET names == TypeNames(types \ (IF "number" \in types THEN {"integer"} ELSE {}))
    IN IF Len(names) = 1 THEN names[1] ELSE JArr(names)

\* intersection_schema was called on two objects that hold different `type`
TypesIntersected ==
    /\ Intersected
    /\ contains_key(before.o, "type")
    /\ contains_key(other.o, "type")
    /\ before.o["type"] # other.o["type"]

\* C17 as stated: the `type` of the left object becomes the canonical form of
\* the types that both `type` allow; when they allow none in common the left
\* schema becomes `false`, Complete and updated.
C17_TypeIntersected ==
    TypesIntersected =>
        LET common == AllowedTypes(before.o["type"]) \cap AllowedTypes(other.o["type"])
        IN /\ common = {} => after = JFalse /\ status = "Complete" /\ flag
           /\ common # {} => IsObject(after) /\ map_get(after.o, "type") = CanonicalForm(common)
           /\ IsObject(after) => contains_key(after.o, "type")

\* C17, amended: so it is when the left `type` allows a type that the right
\* one does not; when every type the left `type` allows is allowed by the
\* right one, the left `type` stays as it is written.  The left schema is
\* never an object that has lost its `type`.
C17_TypeIntersectedWhenNarrowed ==
    TypesIntersected =>
        LET left == AllowedTypes(before.o["type"])
            common == left \cap AllowedTypes(other.o["type"])
        IN /\ (common # left /\ common = {}) => after = JFalse /\ status = "Complete" /\ flag
           /\ (common # left /\ common # {} /\ IsObject(after)) =>
                  after.o["type"] = CanonicalForm(common) /\ flag
           /\ (common = left /\ IsObject(after)) => after.o["type"] = before.o["type"]
           /\ IsObject(after) => contains_key(after.o, "type")

\* a `type` of several types was narrowed to one of them
C17_TypeNarrowed ==
    /\ TypesIntersected
    /\ before = Obj1("type", JArr(<<JStr("number"), JStr("string")>>))
    /\ other = Obj1("type", JStr("integer"))
    /\ after = Obj1("type", JStr("integer"))

-----------------------------------------------------------------------------
(* What is claimed of the rules of all_of.rs and of the end of the loop.   *)

\* flatten_all_of was called on an object with an `allOf` array and has returned
Flattened ==
    /\ status = "applied"
    /\ rule = "flatten_all_of"
    /\ IsObject(before)
    /\ IsArray(map_get(before.o, "allOf"))

\* the outer schema `v` after its intersection with the first i of `arms`, in order
OuterAfter(v, arms) ==
    LET outer[i \in 0..Len(arms)] ==
            IF i = 0 THEN v ELSE intersection_schema(outer[i - 1], arms[i]).schema
    IN outer

\* the indexes of the `arms` whose intersection with the outer schema is Partial
PartialArms(v, arms) ==
    {i \in 1..Len(arms) : intersection_schema(OuterAfter(v, arms)[i - 1], arms[i]).status = "Partial"}

\* C18: after flatten_all_of the `allOf` holds the items whose intersection
\* with the outer schema was Partial, and only them, in their order; it is
\* removed when none is left.
C18_CompleteArmsRemoved ==
    (Flattened /\ IsObject(after)) =>
        LET arms == before.o["allOf"].a
            partial == PartialArms(before, arms)
        IN IF partial = {}
           THEN ~contains_key(after.o, "allOf")
           ELSE /\ contains_key(after.o, "allOf")
                /\ after.o["allOf"] = JArr(RemoveIndexes(arms, (1..Len(arms)) \ partial))

AllOfSimplified ==
    /\ status = "applied"
    /\ rule = "simplify_all_of"
    /\ IsObject(before)
    /\ IsArray(map_get(before.o, "allOf"))

\* the items of `arms` that are no true-schema, in their order
NonTrueArms(arms) == RemoveIndexes(arms, {i \in 1..Len(arms) : true_schema(arms[i])})

\* the primitive types that the schema `v` allows by its `type`
TypeSetOf(v) ==
    IF IsObject(v) /\ contains_key(v.o, "type") THEN AllowedTypes(v.o["type"]) ELSE PrimitiveTypes

\* the types allowed by the outer schema `v` and by every one of `arms`
CommonAllOfTypes(v, arms) ==
    {pt \in TypeSetOf(v) : \A i \in 1..Len(arms) : pt \in TypeSetOf(arms[i])}

\* the item `arm` once its `type` is brought to the types `common`
Retyped(arm, common) ==
    IF IsObject(arm) /\ TypeSetOf(arm) # common
    THEN JObj(map_insert(arm.o, "type", CanonicalForm(common)))
    ELSE arm

\* the object `after` is `before` with `kept`, retyped to `common`, as its `allOf`;
\* without `allOf` when `kept` is empty and `arms` was not
SimplifiedTo(arms, kept, common) ==
    /\ IsObject(after)
    /\ DOMAIN after.o \ {"allOf"} = DOMAIN before.o \ {"allOf"}
    /\ \A key \in DOMAIN before.o \ {"allOf"} : after.o[key] = before.o[key]
    /\ IF kept = <<>>
       THEN IF arms = <<>> THEN after = before ELSE ~contains_key(after.o, "allOf")
       ELSE /\ contains_key(after.o, "allOf")
            /\ after.o["allOf"] = JArr([i \in 1..Len(kept) |-> Retyped(kept[i], common)])

\* C20 as stated: simplify_all_of removes the true items of `allOf`; the schema
\* becomes `false` when an item left is `false` or when the outer schema and
\* the items left allow no type in common; otherwise the object items whose
\* types are not the common ones get the common types as their `type`, and
\* `allOf` is removed when the removal of the true items has emptied it (an
\* `allOf` that was empty stays).
C20_AllOfSimplified ==
    AllOfSimplified =>
        LET arms == before.o["allOf"].a
            kept == NonTrueArms(arms)
            common == CommonAllOfTypes(before, kept)
        IN IF arms = <<>> THEN after = before
           ELSE IF (\E i \in 1..Len(kept) : false_schema(kept[i])) \/ common = {}
                THEN after = JFalse
                ELSE SimplifiedTo(arms, kept, common)

\* C20, amended: the types are looked at only when an item is left after the
\* removal of the true items; when none is left `allOf` is removed and the
\* outer schema stays an object, whatever its `type` allows.
C20_AllOfSimplifiedWhenArmsLeft ==
    AllOfSimplified =>
        LET arms == before.o["allOf"].a
            kept == NonTrueArms(arms)
            common == CommonAllOfTypes(before, kept)
        IN IF kept # <<>> /\ ((\E i \in 1..Len(kept) : false_schema(kept[i])) \/ common = {})
           THEN after = JFalse
           ELSE SimplifiedTo(arms, kept, common)

\* an item of `allOf` was brought to the types that all the items allow
C20_ArmRetyped ==
    /\ AllOfSimplified
    /\ before = Obj1("allOf", JArr(<<Obj1("type", JStr("integer")), Obj1("type", JStr("number"))>>))
    /\ after = Obj1("allOf", JArr(<<Obj1("type", JStr("integer")), Obj1("type", JStr("integer"))>>))

-----------------------------------------------------------------------------
(* What is claimed of the rules of any_of.rs, const_.rs and enum_.rs.      *)

\* simplify_any_of was called on an object with an `anyOf` array and has returned
AnyOfSimplified ==
    /\ status = "applied"
    /\ rule = "simplify_any_of"
    /\ IsObject(before)
    /\ IsArray(map_get(before.o, "anyOf"))

\* the indexes of the `arms` that are `false` or allow no type that `v` allows
DisjointArms(v, arms) ==
    {i \in 1..Len(arms) : false_schema(arms[i]) \/ TypeSetOf(v) \cap TypeSetOf(arms[i]) = {}}

\* C21: simplify_any_of removes from `anyOf` the items that are `false` or
\* whose types have nothing in common with the types of the outer schema
\* (no `type` allows every type, `number` allows `integer`), and only them;
\* the schema becomes `false` when the removal empties the array, and `anyOf`
\* is removed when an item left is a true-schema.
C21_AnyOfSimplified ==
    AnyOfSimplified =>
        LET arms == before.o["anyOf"].a
            kept == RemoveIndexes(arms, DisjointArms(before, arms))
        IN IF arms = <<>> THEN after = before
           ELSE IF kept = <<>> THEN after = JFalse
           ELSE IF \E i \in 1..Len(kept) : true_schema(kept[i])
                THEN after = JObj(map_remove(before.o, "anyOf"))
                ELSE after = JObj(map_insert(before.o, "anyOf", JArr(kept)))

\* simple_const_cleanup was called on an object that holds `const` and has returned
ConstCleaned ==
    /\ status = "applied"
    /\ rule = "simple_const_cleanup"
    /\ IsObject(before)
    /\ contains_key(before.o, "const")

\* the one type that `type` is narrowed to for the constant `const_value` under
\* the allowed types `types`; "none" when the constant is of none of them
ConstType(const_value, types) ==
    IF from_serde_value(const_value) # "number"
    THEN IF from_serde_value(const_value) \in types THEN from_serde_value(const_value) ELSE "none"
    ELSE IF "number" \in types THEN "number"
         ELSE IF "integer" \in types THEN "integer" ELSE "none"

\* `after` is `before` with `type` set to the one type `pt`, `false` when there is none
NarrowedTo(pt) ==
    IF pt = "none" THEN after = JFalse
    ELSE after = JObj(map_insert(before.o, "type", JStr(pt)))

\* C22 as stated: simple_const_cleanup makes the schema `false` when the type
\* of the constant is none of the types the schema allows, and otherwise
\* narrows `type` to the type of the constant (`number`, or `integer` when
\* `number` is not allowed), also when the schema has no `type`.
C22_ConstNarrowsType ==
    ConstCleaned => NarrowedTo(ConstType(before.o["const"], TypeSetOf(before)))

\* C22, amended: so it is when the schema holds `type`; a schema without
\* `type` is left as it is.
C22_ConstNarrowsDeclaredType ==
    ConstCleaned =>
        IF contains_key(before.o, "type")
        THEN NarrowedTo(ConstType(before.o["const"], TypeSetOf(before)))
        ELSE after = before /\ ~flag

\* a numeric constant has narrowed `type` to `integer`
C22_NumericConstUnderInteger ==
    /\ ConstCleaned
    /\ before = Obj2("const", JNum(1), "type", JArr(<<JStr("array"), JStr("integer")>>))
    /\ after = Obj2("const", JNum(1), "type", JStr("integer"))
    /\ flag

\* simple_enum_cleanup was called on an object whose `enum` is an array and has returned
EnumCleaned ==
    /\ status = "applied"
    /\ rule = "simple_enum_cleanup"
    /\ IsObject(before)
    /\ IsArray(map_get(before.o, "enum"))

\* the indexes of the `entries` whose type is none of `types`; a number is
\* of the types `number` and `integer`
EntriesOutside(entries, types) ==
    {i \in 1..Len(entries) :
        IF from_serde_value(entries[i]) = "number"
        THEN types \cap {"number", "integer"} = {}
        ELSE from_serde_value(entries[i]) \notin types}

\* `after` is `before` with the `entries` of the allowed types as its `enum`,
\* `false` when there is none
EnumFilteredTo(entries, types) ==
    IF EntriesOutside(entries, types) = 1..Len(entries)
    THEN after = JFalse
    ELSE after = JObj(map_insert(before.o, "enum",
                                 JArr(RemoveIndexes(entries, EntriesOutside(entries, types)))))

\* C23 as stated: simple_enum_cleanup removes from `enum` the entries whose
\* type the schema does not allow, and only them, the others staying in their
\* order; the schema becomes `false` when no entry is left.
C23_EnumFiltered ==
    EnumCleaned => EnumFilteredTo(before.o["enum"].a, TypeSetOf(before))

\* C23, amended: so it is when `enum` has an entry and `type` allows a type;
\* an empty `enum`, and a schema whose `type` allows nothing, are left as
\* they are.
C23_EnumFilteredWhenTyped ==
    EnumCleaned =>
        IF before.o["enum"].a = <<>> \/ TypeSetOf(before) = {}
        THEN after = before /\ ~flag
        ELSE EnumFilteredTo(before.o["enum"].a, TypeSetOf(before))

\* an entry was removed and another one kept
C23_EntryRemoved ==
    /\ EnumCleaned
    /\ before = Obj2("enum", JArr(<<JNum(1), JStr("a")>>), "type", JStr("integer"))
    /\ after = Obj2("enum", JArr(<<JNum(1)>>), "type", JStr("integer"))
    /\ flag

-----------------------------------------------------------------------------
(* What is claimed of the rules on the pairs of a maximum and a minimum    *)
(* and of the rule on `propertyNames`.                                      *)

\* the rule on the max/min pairs, in either of its two files, was called on
\* an object and has returned
MaxMinUpdated ==
    /\ status = "applied"
    /\ rule \in {"update_max_min_related_keywords", "update_min_max_related_keywords"}
    /\ IsObject(before)

\* the pairs, in the order they are looked at, with the types each constrains
MaxMinPairs == <<
    [max |-> "maxItems", min |-> "minItems", types |-> {"array"}],
    [max |-> "maxLength", min |-> "minLength", types |-> {"string"}],
    [max |-> "maxProperties", min |-> "minProperties", types |-> {"object"}],
    [max |-> "exclusiveMaximum", min |-> "exclusiveMinimum", types |-> {"integer", "number"}],
    [max |-> "maximum", min |-> "minimum", types |-> {"integer", "number"}]>>

\* the pair holds two numbers in `v`, the maximum smaller than the minimum
Incongruent(v, pair) ==
    /\ is_f64(value_get(v, pair.max))
    /\ is_f64(value_get(v, pair.min))
    /\ as_f64(v.o[pair.max]) < as_f64(v.o[pair.min])

\* the pairs of `v` acted on: incongruent, and of a type still allowed when
\* the pair is looked at (the two numeric pairs constrain the same types)
ActedPairs(v) ==
    LET allowed == {i \in DOMAIN MaxMinPairs :
                       Incongruent(v, MaxMinPairs[i]) /\ MaxMinPairs[i].types \cap TypeSetOf(v) # {}}
    IN IF 4 \in allowed THEN allowed \ {5} ELSE allowed

\* the keywords of the pairs `pairs`
PairKeywords(pairs) == UNION {{MaxMinPairs[i].max, MaxMinPairs[i].min} : i \in pairs}

\* C24: the rule on the max/min pairs acts on a pair whose maximum is smaller
\* than its minimum only when the schema allows the type that the pair
\* constrains; it takes that type out of the allowed ones, makes the schema
\* `false` when none is left, and otherwise removes the two keywords and
\* writes `type` anew.  Such a pair of a type that is not allowed never makes
\* the schema `false`, and stays.
C24_MaxMinPairs ==
    MaxMinUpdated =>
        LET acted == ActedPairs(before)
            left == TypeSetOf(before) \ UNION {MaxMinPairs[i].types : i \in acted}
        IN IF acted = {}
           THEN /\ IsObject(after)
                /\ \A key \in DOMAIN before.o \cap PairKeywords(DOMAIN MaxMinPairs) :
                       value_get(before, key) = JNum(0) \/ map_get(after.o, key) = before.o[key]
           ELSE IF left = {} THEN after = JFalse
           ELSE /\ IsObject(after)
                /\ map_get(after.o, "type") = CanonicalForm(left)
                /\ DOMAIN after.o \cap PairKeywords(acted) = {}
                /\ \A key \in DOMAIN before.o \ (PairKeywords(DOMAIN MaxMinPairs) \cup {"type"}) :
                       map_get(after.o, key) = before.o[key]

\* optimise_property_names was called on an object that holds `propertyNames`
\* and has returned
PropertyNamesOptimised ==
    /\ status = "applied"
    /\ rule = "optimise_property_names"
    /\ IsObject(before)
    /\ contains_key(before.o, "propertyNames")

\* the types that the schema `v` accepts by its `type`: none for `false` and
\* for what is no schema
SchemaTypes(v) == IF v = JTrue \/ IsObject(v) THEN TypeSetOf(v) ELSE {}

\* `minProperties` of `v` is a number above zero
RequiresProperty(v) ==
    is_f64(value_get(v, "minProperties")) /\ as_f64(v.o["minProperties"]) > 0

\* C25: when the schema allows objects and its `propertyNames` allows no
\* string (a `false` one included), optimise_property_names takes `object`
\* out of the allowed types if `minProperties` is above zero, the schema
\* becoming `false` when no type is left, and otherwise sets `maxProperties`
\* to 0 and removes `propertyNames`; when the schema allows no object it
\* removes `propertyNames`.
C25_PropertyNamesWithoutString ==
    PropertyNamesOptimised =>
        /\ "object" \notin TypeSetOf(before) =>
               after = JObj(map_remove(before.o, "propertyNames"))
        /\ ("object" \in TypeSetOf(before) /\ "string" \notin SchemaTypes(before.o["propertyNames"])) =>
               IF RequiresProperty(before)
               THEN IF TypeSetOf(before) = {"object"}
                    THEN after = JFalse
                    ELSE after = JObj(map_insert(before.o, "type",
                                                 CanonicalForm(TypeSetOf(before) \ {"object"})))
               ELSE after = JObj(map_insert(map_remove(before.o, "propertyNames"),
                                            "maxProperties", JNum(0)))

\* `object` was taken out of the types of a schema that requires a property
\* and allows no property name
C25_ObjectRemoved ==
    /\ PropertyNamesOptimised
    /\ before = Obj3("type", JArr(<<JStr("number"), JStr("object")>>), "minProperties", JNum(1),
                     "propertyNames", JFalse)
    /\ after = Obj3("type", JStr("number"), "minProperties", JNum(1), "propertyNames", JFalse)
    /\ flag

-----------------------------------------------------------------------------
(* What is claimed of simplify_additional_items and of the driver.         *)

\* simplify_additional_items was called on an object that holds `additionalItems`
AdditionalItemsSimplified ==
    /\ status = "applied"
    /\ rule = "simplify_additional_items"
    /\ IsObject(before)
    /\ contains_key(before.o, "additionalItems")

\* C26: when `additionalItems` is no true-schema and `items` is one schema,
\* an object or a boolean, simplify_additional_items removes
\* `additionalItems` and reports the update.
C26_AdditionalItemsUnderOneSchema ==
    (/\ AdditionalItemsSimplified
     /\ ~true_schema(before.o["additionalItems"])
     /\ (IsObject(map_get(before.o, "items")) \/ IsBool(map_get(before.o, "items")))) =>
        after = JObj(map_remove(before.o, "additionalItems")) /\ flag

\* update_schema_no_recursive was called on an object and has returned
LocalRulesRun ==
    /\ status = "applied"
    /\ rule = "update_schema_no_recursive"
    /\ IsObject(before)

\* the turns of the loop of update_schema_no_recursive on `v` at which the
\* method of that turn is called
MethodsCalled(v) ==
    {i \in 1..Len(UPDATE_SCHEMA_METHODS) : ~loop_left(loop_states(v)[i - 1])}

\* the schema `v` after the first n methods of the order, each applied to
\* what the one before has left
AfterMethods(v) ==
    LET applied[n \in 0..Len(UPDATE_SCHEMA_METHODS)] ==
            IF n = 0 THEN v ELSE ApplyRule(UPDATE_SCHEMA_METHODS[n], applied[n - 1]).schema
    IN applied

\* the number of methods after which `v` is a boolean, all of them if it never is
MethodsUntilBoolean(v) ==
    LET boolean == {n \in 1..Len(UPDATE_SCHEMA_METHODS) : IsBool(AfterMethods(v)[n])}
    IN IF boolean = {} THEN Len(UPDATE_SCHEMA_METHODS)
       ELSE CHOOSE n \in boolean : \A m \in boolean : n <= m

TrueSchemaUpdated ==
    /\ status = "applied"
    /\ rule = "update_schema"
    /\ true_schema(before)

\* C28 as stated: update_schema makes a true-schema, `true` or the object
\* without keys, the boolean `true`, and reports an update when it was not
\* `true` already.
C28_TrueSchemaCanonical ==
    TrueSchemaUpdated => after = JTrue /\ (flag <=> before # JTrue)

\* C28, amended: update_schema leaves a true-schema as it is written, `true`
\* or the object without keys, and reports no update.
C28_TrueSchemaKept ==
    TrueSchemaUpdated => after = before /\ ~flag

\* update_schema has returned the object without keys it was given
C28_EmptyObjectKept ==
    /\ TrueSchemaUpdated
    /\ before = EmptyObject
    /\ after = EmptyObject

\* update_schema was called on an object and has returned an object
ObjectUpdated ==
    /\ status = "applied"
    /\ rule = "update_schema"
    /\ IsObject(before)
    /\ IsObject(after)

\* the keywords whose value maps names to schemas
NAME_MAP_KEYWORDS == {"properties", "patternProperties", "dependencies"}

\* the value of `key` is the same before and after, where both hold it
ValueKept(key) ==
    (key \in DOMAIN before.o /\ key \in DOMAIN after.o) => after.o[key] = before.o[key]

\* every entry of `enum` after the call is an entry of `enum` before it
EntriesKept ==
    ("enum" \in DOMAIN before.o /\ "enum" \in DOMAIN after.o
        /\ IsArray(before.o["enum"]) /\ IsArray(after.o["enum"]))
    => \A i \in 1..Len(after.o["enum"].a) :
           \E j \in 1..Len(before.o["enum"].a) : after.o["enum"].a[i] = before.o["enum"].a[j]

\* the names of the map under `key` are the same before and after, where both
\* hold the map
NamesKept(key) ==
    (key \in DOMAIN before.o /\ key \in DOMAIN after.o
        /\ IsObject(before.o[key]) /\ IsObject(after.o[key]))
    => DOMAIN after.o[key].o = DOMAIN before.o[key].o

\* C29: update_schema rewrites values at schema positions only: the value of
\* `const` and the entries of `enum` are not rewritten, and the names of the
\* maps of `properties`, `patternProperties` and `dependencies` are kept.
C29_OnlySchemaPositions ==
    ObjectUpdated =>
        /\ ValueKept("const")
        /\ EntriesKept
        /\ \A key \in NAME_MAP_KEYWORDS : NamesKept(key)

\* to_schema_value has written back the set read from `before`
TypeSetWritten ==
    /\ status = "applied"
    /\ rule = "to_schema_value"

\* the set of types read from `before`
TypeSetRead == from_schema_value(before)

\* a set that is neither empty nor full reads back as itself; the full set is
\* written as no `type` and reads back full; the empty set is written as no
\* `type` and does not read back as itself
RoundTrip ==
    TypeSetWritten =>
        CASE TypeSetRead = {} ->
                after = NONE /\ from_schema_value(after) # TypeSetRead
          [] TypeSetRead = PRIMITIVE_TYPES_BIT_MAP_ALL_TYPES ->
                after = NONE /\ from_schema_value(after) = TypeSetRead
          [] OTHER ->
                after # NONE /\ from_schema_value(after) = TypeSetRead

\* a rule was given an object whose `type` allows no type at all
EmptyTypeSetGiven ==
    /\ status = "applied"
    /\ rule \in RuleNames
    /\ IsObject(before)
    /\ "type" \in DOMAIN before.o
    /\ from_schema(before) = {}

\* the rule gave back an object from which `type` is gone
TypeOnlyDeleted == IsObject(after) /\ "type" \notin DOMAIN after.o

\* C30: the set of types read from a value of `type` and written back reads
\* back as itself unless it is empty or full; the full set and the empty set
\* are both written as no `type`, so the empty set does not read back as
\* itself, and a rule that writes an empty set back makes the schema `false`
\* instead of only deleting `type`.
C30_TypeSetRoundTrip ==
    /\ RoundTrip
    /\ EmptyTypeSetGiven => ~TypeOnlyDeleted

====
